---- MODULE Spec2Model ----
(***************************************************************************)
(* Authentication session lifecycle of the Fruitzy client:                 *)
(*   - AuthProvider (context/AuthContext.tsx): the Session and its observer *)
(*   - AuthService  (services/AuthService.ts): the Credential Operations    *)
(* The auth backend (accounts, current user, listener stream) and the      *)
(* document store (collection 'users') are the state the operations act on.*)
(* Every await of an operation is one step of the process running it.      *)
(***************************************************************************)
EXTENDS Integers, Sequences, FiniteSets, TLC

\* ---------------------------------------------------------------- bounds
MaxAccounts == 2      \* uids the backend can issue
MaxOps == 2           \* credential operations started in one run

\* ---------------------------------------------------------------- values
Procs == {"p1", "p2"}
Uids == 1..MaxAccounts
NoUser == 0                    \* null where a User is expected
Null == "<null>"               \* null / undefined where a string is expected
NoCode == "<undefined>"        \* error.code of an Error that carries none
NoCall == -1                   \* the auth-state callback has not been invoked

\* JS truthiness of a string-or-null value (`x || ''`, `if (x)`)
Truthy(s) == s \notin {Null, ""}
OrEmpty(s) == IF Truthy(s) THEN s ELSE ""

SignUpEmails == {"a@b.com"}
SignInEmails == {"a@b.com", "p@q.com"}
Passwords == {"password123", "wrong-pass"}
SignUpPassword == "password123"
FullNames == {Null, "Ann"}
Usernames == {Null, "ann"}

NoAccount == [exists |-> FALSE]
NoDoc == [exists |-> FALSE]
NoProduct == [id |-> 0, name |-> Null, stock |-> 0, imageKey |-> Null]
NoReport == [success |-> FALSE, total |-> -1, added |-> -1, skipped |-> -1, failed |-> -1]

\* what the identity provider hands to the backend for a new federated account
FedAttrs == { [email |-> "g@mail.com", displayName |-> "Gia", emailVerified |-> TRUE],
              [email |-> Null, displayName |-> Null, emailVerified |-> FALSE] }

\* a Product: the fields the screens and the seeding read (id n stands for 'prd-00n')
Product(n, nm, st, key) == [id |-> n, name |-> nm, stock |-> st, imageKey |-> key]

\* productsData of seedInventory: the five priority products, Orange and Durian, in
\* source order
productsData == << Product(1, "Mango", 32, "mango"),
                   Product(2, "Orange", 28, "orange"),
                   Product(5, "Strawberry", 17, "strawberry"),
                   Product(8, "Durian", 14, "durian"),
                   Product(11, "Chicken", 25, "chicken"),
                   Product(12, "Bread", 30, "bread"),
                   Product(13, "Avocado Premium", 22, "avocadoPremium") >>

\* documents of the collection that seedInventory did not write: a second product with
\* the imageKey 'mango', and a sold-out product without imageKey
ForeignProducts == { Product(101, "Mango Large", 3, "mango"), Product(102, "Kiwi", 0, Null) }

Range(s) == {s[i] : i \in 1..Len(s)}
ProductPool == Range(productsData) \cup ForeignProducts
ProductIds == {p.id : p \in ProductPool}

VARIABLES
  user, loading, initializing,   \* AuthProvider state (the Session)
  scope,                         \* AuthProvider lifecycle: "created" | "mounted" | "torn"
  listeners,                     \* callbacks registered with onAuthStateChanged
  authQ,                         \* notifications the backend has yet to deliver
  lastArg,                       \* argument of the latest callback invocation
  currentUser,                   \* auth.currentUser
  accounts,                      \* the backend's accounts, by uid
  users,                         \* the document store's collection 'users', by uid
  platformOS,                    \* Platform.OS: "web" | "android"
  GoogleSignin,                  \* the native module was loaded (not null)
  isGoogleSignInAvailable,
  configured,                    \* configureGoogleSignIn has run
  proc,                          \* each running operation: position, locals, result
  now,                           \* operations started so far (the clock of createdAt)
  writeCalls,                    \* setDoc calls of federated sign-in, by uid
  rawError, thrown, calls,       \* handleAuthError on its own: argument, result, calls made
  authView, skipAuth,            \* AppContent state
  handler,                       \* the async UI handler suspended at its await
  inventory,                     \* the document store's collection 'inventory', by id
  unsorted, sortOutput, sorted,  \* sortProductsByPriority on its own: argument, result, called
  seed,                          \* the running seedInventory: position, product index, results, report
  runs,                          \* what the seedInventory calls made so far have returned
  faults,                        \* store calls the document store has rejected
  home,                          \* HomeScreen state
  initPc,                        \* initializeInventory of the mount effect: its position
  loadPc,                        \* loadProducts in flight, and who called it
  timer,                         \* the pending setTimeout callback of handleLoadMore: what it closed over
  cart, toast,                   \* the product of the latest addToCart call; the latest toast
  search,                        \* SearchScreen state
  searchPc,                      \* loadProducts of SearchScreen: its position
  effectPending                  \* the [searchQuery, allProducts] effect has yet to run

sessionVars == <<user, loading, initializing>>
observerVars == <<scope, listeners, authQ, lastArg>>
backendVars == <<currentUser, accounts>>
platformVars == <<platformOS, GoogleSignin, isGoogleSignInAvailable, configured>>
mappingVars == <<rawError, thrown, calls>>
appVars == <<authView, skipAuth, handler>>
sortVars == <<unsorted, sortOutput, sorted>>
seedVars == <<seed, runs, faults>>
homeVars == <<home, initPc, loadPc, timer>>
cartVars == <<cart, toast>>
searchVars == <<search, searchPc, effectPending>>
catalogVars == <<inventory, sortVars, seedVars, homeVars, cartVars, searchVars>>
vars == <<user, loading, initializing, scope, listeners, authQ, lastArg,
          currentUser, accounts, users, platformOS, GoogleSignin,
          isGoogleSignInAvailable, configured, proc, now, writeCalls,
          rawError, thrown, calls, appVars, catalogVars>>

\* ---------------------------------------------------------------- errors
Err(c, m) == [code |-> c, message |-> m]

DefaultMessage == "An error occurred during authentication"

KnownMessage(code) ==
  CASE code = "auth/email-already-in-use" -> "This email is already registered. Please sign in instead."
    [] code = "auth/invalid-email" -> "Please enter a valid email address."
    [] code = "auth/operation-not-allowed" -> "This sign-in method is not enabled. Please contact support."
    [] code = "auth/weak-password" -> "Password is too weak. Please use at least 6 characters."
    [] code = "auth/user-disabled" -> "This account has been disabled. Please contact support."
    [] code = "auth/user-not-found" -> "No account found with this email. Please sign up first."
    [] code = "auth/wrong-password" -> "Incorrect password. Please try again."
    [] code = "auth/too-many-requests" -> "Too many failed attempts. Please try again later."
    [] code = "auth/network-request-failed" -> "Network error. Please check your internet connection."
    [] code = "auth/invalid-credential" -> "Invalid credentials. Please check your email and password."
    [] OTHER -> Null

KnownCodes == {"auth/email-already-in-use", "auth/invalid-email", "auth/operation-not-allowed",
               "auth/weak-password", "auth/user-disabled", "auth/user-not-found",
               "auth/wrong-password", "auth/too-many-requests",
               "auth/network-request-failed", "auth/invalid-credential"}

\* handleAuthError: the message is rewritten by code, the code is kept
handleAuthErrorKeepsMessage(error) ==
  Err(error.code, IF Truthy(error.message) THEN error.message ELSE DefaultMessage)

handleAuthErrorDropsMessage(error) ==
  Err(error.code, IF error.code \in KnownCodes THEN KnownMessage(error.code) ELSE DefaultMessage)

handleAuthError(error) ==
  LET message == IF error.code \in KnownCodes THEN KnownMessage(error.code)
                 ELSE IF Truthy(error.message) THEN error.message
                 ELSE DefaultMessage
  IN Err(error.code, message)

\* raw errors of the collaborators
ErrNetwork == Err("auth/network-request-failed", "Firebase: Error (auth/network-request-failed).")
ErrEmailInUse == Err("auth/email-already-in-use", "Firebase: Error (auth/email-already-in-use).")
ErrWrongPassword == Err("auth/wrong-password", "Firebase: Error (auth/wrong-password).")
ErrUserNotFound == Err("auth/user-not-found", "Firebase: Error (auth/user-not-found).")
ErrStore == Err("permission-denied", "Missing or insufficient permissions.")
ErrNoUser == Err(NoCode, "No user is currently signed in")


\* ---------------------------------------------------------------- state
NoResult == [status |-> "none", value |-> NoUser, code |-> NoCode, message |-> "", doc |-> NoDoc]
Ok(u) == [status |-> "ok", value |-> u, code |-> NoCode, message |-> "", doc |-> NoDoc]
OkDoc(d) == [status |-> "ok", value |-> NoUser, code |-> NoCode, message |-> "", doc |-> d]
Failed(e) == [status |-> "error", value |-> NoUser, code |-> e.code, message |-> e.message, doc |-> NoDoc]

NoError == Err(NoCode, Null)     \* no error caught

IdleProc == [op |-> "none", pc |-> "idle", email |-> Null, password |-> Null,
             fullName |-> Null, username |-> Null, uid |-> NoUser, result |-> NoResult,
             nRead |-> 0, nWrite |-> 0, nMail |-> 0,
             providerThrew |-> FALSE, storeFailed |-> FALSE, caught |-> NoError]

\* an account made by an earlier run of the app (sign-up from the sign-up screen)
PersistedAccount == [exists |-> TRUE, email |-> "p@q.com", displayName |-> Null,
                     emailVerified |-> TRUE, password |-> SignUpPassword]

\* module load of AuthService.ts: the native module is required off the web only
ModuleLoad(os, requireOk) ==
  /\ platformOS = os
  /\ GoogleSignin = (os # "web" /\ requireOk)
  /\ isGoogleSignInAvailable = (os # "web" /\ requireOk)

\* the app at startup: module load, AuthProvider constructed, nothing called yet
AppInit ==
  /\ user = NoUser /\ loading = TRUE /\ initializing = TRUE
  /\ scope = "created" /\ listeners = 0 /\ authQ = <<>> /\ lastArg = NoCall
  /\ \E persisted \in BOOLEAN :
       /\ accounts = [u \in Uids |-> IF persisted /\ u = 1 THEN PersistedAccount ELSE NoAccount]
       /\ currentUser = IF persisted THEN 1 ELSE NoUser
  /\ users = [u \in Uids |-> NoDoc]
  /\ \E os \in {"web", "android"}, requireOk \in BOOLEAN :
       /\ (os = "web" => requireOk)
       /\ ModuleLoad(os, requireOk)
  /\ configured = FALSE
  /\ proc = [p \in Procs |-> IdleProc]
  /\ now = 0
  /\ writeCalls = [u \in Uids |-> 0]

\* AppContent as first rendered: useState('landing-signin'), useState(false)
AppContentInit ==
  /\ authView = "landing-signin"
  /\ skipAuth = FALSE
  /\ handler = "none"

\* no product screen is mounted and the inventory has not been seeded
\* seedInventory not called
SeedIdle == [pc |-> "idle", i |-> 0, results |-> <<>>, report |-> NoReport]

\* HomeScreen as first rendered, its effect not yet run
HomeInitial == [allProducts |-> <<>>, displayedProducts |-> <<>>, loading |-> TRUE,
                loadingMore |-> FALSE, error |-> Null, resetting |-> FALSE]

NoTimer == [pending |-> FALSE, displayedProducts |-> <<>>, allProducts |-> <<>>]

\* SearchScreen as first rendered, its effects not yet run
SearchInitial == [searchQuery |-> "", allProducts |-> <<>>, filteredProducts |-> <<>>,
                  loading |-> TRUE]

ScreensIdle ==
  /\ search = SearchInitial /\ searchPc = "none" /\ effectPending = FALSE
  /\ seed = SeedIdle /\ runs = <<>> /\ faults = 0
  /\ home = HomeInitial /\ initPc = "none" /\ loadPc = "idle" /\ timer = NoTimer
  /\ cart = NoProduct /\ toast = "none"

SortIdle == unsorted = <<>> /\ sortOutput = <<>> /\ sorted = FALSE

\* no product screen is mounted and the inventory has not been seeded
CatalogIdle ==
  /\ inventory = [id \in ProductIds |-> NoDoc]
  /\ SortIdle
  /\ ScreensIdle

Init ==
  /\ AppInit
  /\ AppContentInit
  /\ CatalogIdle
  /\ rawError = NoError /\ thrown = NoError /\ calls = 0

\* ---------------------------------------------------------------- Session Observer
\* the callback given to onAuthStateChanged
AuthCallbackNoInit(currentUserArg) ==
  /\ user' = currentUserArg
  /\ loading' = FALSE
  /\ initializing' = initializing

AuthCallbackKeepsUser(currentUserArg) ==
  /\ user' = IF currentUserArg = NoUser THEN user ELSE currentUserArg
  /\ loading' = FALSE
  /\ initializing' = FALSE

AuthCallback(currentUserArg) ==
  /\ user' = currentUserArg
  /\ loading' = FALSE
  /\ initializing' = FALSE

\* the context value computed on each render
\* JS: !!v of a User-or-null, v?.emailVerified (<<>> stands for undefined), v || d
ToBoolean(v) == v # NoUser
OptionalEmailVerified(v) == IF v = NoUser THEN <<>> ELSE <<accounts[v].emailVerified>>
OrElse(opt, d) == IF opt # <<>> /\ opt[1] THEN opt[1] ELSE d

isAuthenticatedWhenVerified == ToBoolean(user) /\ OrElse(OptionalEmailVerified(user), FALSE)

isAuthenticated == ToBoolean(user)

isEmailVerified == OrElse(OptionalEmailVerified(user), FALSE)

\* onAuthStateChanged(auth, cb): registers cb; the backend calls it once with the
\* current user and then on every change of the signed-in user
Subscribe ==
  /\ listeners' = listeners + 1
  /\ authQ' = Append(authQ, currentUser)

\* the unsubscribe function returned by onAuthStateChanged
UnsubscribeLeaks ==
  /\ listeners' = listeners
  /\ authQ' = authQ

Unsubscribe ==
  /\ listeners' = listeners - 1
  /\ authQ' = <<>>

\* useEffect(() => {...}, []) of AuthProvider
Mount ==
  /\ scope = "created"
  /\ configured
  /\ scope' = "mounted"
  /\ Subscribe
  /\ UNCHANGED <<appVars, catalogVars, mappingVars, sessionVars, lastArg, backendVars, users, platformVars, proc, now, writeCalls>>

\* the effect's cleanup
Unmount ==
  /\ scope = "mounted"
  /\ scope' = "torn"
  /\ Unsubscribe
  /\ UNCHANGED <<appVars, catalogVars, mappingVars, sessionVars, lastArg, backendVars, users, platformVars, proc, now, writeCalls>>

\* the backend delivers one notification to the registered callback
ObserverCallback ==
  /\ listeners > 0
  /\ authQ # <<>>
  /\ AuthCallback(Head(authQ))
  /\ lastArg' = Head(authQ)
  /\ authQ' = Tail(authQ)
  /\ UNCHANGED <<appVars, catalogVars, mappingVars, scope, listeners, backendVars, users, platformVars, proc, now, writeCalls>>

\* the backend changes the signed-in user and notifies the listeners
SetCurrentUser(u) ==
  /\ currentUser' = u
  /\ authQ' = IF listeners > 0 THEN Append(authQ, u) ELSE authQ

\* ---------------------------------------------------------------- platform
\* configureGoogleSignIn, called once from AppContent's effect
configureGoogleSignInEveryRender ==
  /\ configured' = TRUE
  /\ IF platformOS # "web" /\ isGoogleSignInAvailable /\ GoogleSignin
       THEN \E clientIdOk \in BOOLEAN, configureThrows \in BOOLEAN :
              isGoogleSignInAvailable' = (clientIdOk /\ ~configureThrows)
       ELSE isGoogleSignInAvailable' = isGoogleSignInAvailable
  /\ UNCHANGED <<appVars, catalogVars, mappingVars, sessionVars, observerVars, backendVars, users, platformOS, GoogleSignin,
                 proc, now, writeCalls>>

configureGoogleSignIn ==
  /\ ~configured
  /\ configured' = TRUE
  /\ IF platformOS # "web" /\ isGoogleSignInAvailable /\ GoogleSignin
       THEN \E clientIdOk \in BOOLEAN, configureThrows \in BOOLEAN :
              isGoogleSignInAvailable' = (clientIdOk /\ ~configureThrows)
       ELSE isGoogleSignInAvailable' = isGoogleSignInAvailable
  /\ UNCHANGED <<appVars, catalogVars, mappingVars, sessionVars, observerVars, backendVars, users, platformOS, GoogleSignin,
                 proc, now, writeCalls>>


\* ---------------------------------------------------------------- Credential Operations
\* the UI awaits each operation it calls: in Spec one process calls them in sequence
Main == "p1"

\* the locals of a fresh call
Fresh(opName, firstPc, em, pw, fn, un) ==
  [IdleProc EXCEPT !.op = opName, !.pc = firstPc, !.email = em, !.password = pw,
                   !.fullName = fn, !.username = un]

\* an operation is called from the rendered UI and runs to its first await: the clock ticks
Call(p, rec) ==
  /\ scope = "mounted"
  /\ proc[p].pc = "idle"
  /\ now < MaxOps
  /\ now' = now + 1
  /\ proc' = [proc EXCEPT ![p] = rec]

\* the operation's promise settles
Return(p, res) == [proc[p] EXCEPT !.pc = "idle", !.result = res]

Goto(p, nextPc) == [proc[p] EXCEPT !.pc = nextPc]

\* a catch block caught `error` and the operation's promise rejects with `surfaced`
Caught(p, error, surfaced) == [Return(p, Failed(surfaced)) EXCEPT !.caught = error]

FreeUids == {u \in Uids : ~accounts[u].exists}
NewUid == CHOOSE u \in FreeUids : \A v \in FreeUids : u <= v
EmailTaken(em) == \E u \in Uids : accounts[u].exists /\ accounts[u].email = em

\* ---- signUpWithEmail
\* the UserData written by signUpWithEmail
SignUpUserDataVerified(u, fn, un) ==
  [exists |-> TRUE, email |-> OrEmpty(accounts[u].email), fullName |-> OrEmpty(fn),
   username |-> OrEmpty(un), createdAt |-> now, emailVerified |-> TRUE]

SignUpUserData(u, fn, un) ==
  [exists |-> TRUE, email |-> OrEmpty(accounts[u].email), fullName |-> OrEmpty(fn),
   username |-> OrEmpty(un), createdAt |-> now, emailVerified |-> FALSE]

\* catch (error) { throw handleAuthError(error) } of signUpWithEmail
SignUpCatchLogsStoreError(p, error) ==
  IF error = ErrStore THEN Return(p, Ok(proc[p].uid)) ELSE Caught(p, error, handleAuthError(error))

SignUpCatch(p, error) == Caught(p, error, handleAuthError(error))

signUpWithEmail(p) ==
  /\ \E em \in SignUpEmails, fn \in FullNames, un \in Usernames :
       Call(p, Fresh("signUp", "su_create", em, SignUpPassword, fn, un))
  /\ UNCHANGED <<appVars, catalogVars, mappingVars, sessionVars, observerVars, backendVars, users, platformVars, writeCalls>>

\* await createUserWithEmailAndPassword(auth, email, password)
SignUpCreate(p) ==
  /\ proc[p].pc = "su_create"
  /\ \/ /\ ~EmailTaken(proc[p].email)
        /\ FreeUids # {}
        /\ accounts' = [accounts EXCEPT ![NewUid] =
                          [exists |-> TRUE, email |-> proc[p].email, displayName |-> Null,
                           emailVerified |-> FALSE, password |-> proc[p].password]]
        /\ SetCurrentUser(NewUid)
        /\ proc' = [proc EXCEPT ![p] = [Goto(p, IF Truthy(proc[p].fullName) THEN "su_update"
                                                  ELSE "su_verify") EXCEPT !.uid = NewUid]]
     \/ /\ \E e \in (IF EmailTaken(proc[p].email) THEN {ErrEmailInUse} ELSE {}) \cup {ErrNetwork} :
             proc' = [proc EXCEPT ![p] = SignUpCatch(p, e)]
        /\ UNCHANGED <<currentUser, accounts, authQ>>
  /\ UNCHANGED <<appVars, catalogVars, mappingVars, sessionVars, scope, listeners, lastArg, users, platformVars, now, writeCalls>>

\* await updateProfile(user, { displayName: fullName })
SignUpUpdateProfile(p) ==
  /\ proc[p].pc = "su_update"
  /\ \/ /\ accounts' = [accounts EXCEPT ![proc[p].uid].displayName = proc[p].fullName]
        /\ proc' = [proc EXCEPT ![p] = Goto(p, "su_verify")]
     \/ /\ proc' = [proc EXCEPT ![p] = SignUpCatch(p, ErrNetwork)]
        /\ UNCHANGED accounts
  /\ UNCHANGED <<appVars, catalogVars, mappingVars, sessionVars, observerVars, currentUser, users, platformVars, now, writeCalls>>

\* await sendEmailVerification(user), then the branch on username || fullName
SignUpSendVerificationBestEffort(p) ==
  /\ proc[p].pc = "su_verify"
  /\ \E sent \in {0, 1} :
       proc' = [proc EXCEPT ![p] =
                  IF Truthy(proc[p].username) \/ Truthy(proc[p].fullName)
                    THEN [Goto(p, "su_write") EXCEPT !.nMail = @ + sent]
                    ELSE [Return(p, Ok(proc[p].uid)) EXCEPT !.nMail = @ + sent]]
  /\ UNCHANGED <<appVars, catalogVars, mappingVars, sessionVars, observerVars, backendVars, users, platformVars, now, writeCalls>>

SignUpSendVerification(p) ==
  /\ proc[p].pc = "su_verify"
  /\ \/ proc' = [proc EXCEPT ![p] =
                   IF Truthy(proc[p].username) \/ Truthy(proc[p].fullName)
                     THEN [Goto(p, "su_write") EXCEPT !.nMail = @ + 1]
                     ELSE [Return(p, Ok(proc[p].uid)) EXCEPT !.nMail = @ + 1]]
     \/ proc' = [proc EXCEPT ![p] = SignUpCatch(p, ErrNetwork)]
  /\ UNCHANGED <<appVars, catalogVars, mappingVars, sessionVars, observerVars, backendVars, users, platformVars, now, writeCalls>>

\* await setDoc(doc(db, 'users', user.uid), userData); return user
SignUpSetDocOtherUid(p) ==
  /\ proc[p].pc = "su_write"
  /\ users' = [users EXCEPT ![(proc[p].uid % MaxAccounts) + 1] =
                 SignUpUserData(proc[p].uid, proc[p].fullName, proc[p].username)]
  /\ proc' = [proc EXCEPT ![p] = [Return(p, Ok(proc[p].uid)) EXCEPT !.nWrite = @ + 1]]
  /\ UNCHANGED <<appVars, catalogVars, mappingVars, sessionVars, observerVars, backendVars, platformVars, now, writeCalls>>

SignUpSetDoc(p) ==
  /\ proc[p].pc = "su_write"
  /\ \/ /\ users' = [users EXCEPT ![proc[p].uid] =
                       SignUpUserData(proc[p].uid, proc[p].fullName, proc[p].username)]
        /\ proc' = [proc EXCEPT ![p] = [Return(p, Ok(proc[p].uid)) EXCEPT !.nWrite = @ + 1]]
     \/ /\ proc' = [proc EXCEPT ![p] =
                      [SignUpCatch(p, ErrStore) EXCEPT !.nWrite = @ + 1, !.storeFailed = TRUE]]
        /\ UNCHANGED users
  /\ UNCHANGED <<appVars, catalogVars, mappingVars, sessionVars, observerVars, backendVars, platformVars, now, writeCalls>>

\* ---- signInWithEmail
signInWithEmail(p) ==
  /\ \E em \in SignInEmails, pw \in Passwords : Call(p, Fresh("signIn", "si_call", em, pw, Null, Null))
  /\ UNCHANGED <<appVars, catalogVars, mappingVars, sessionVars, observerVars, backendVars, users, platformVars, writeCalls>>

\* the error signInWithEmailAndPassword rejects with, if it does
SignInRejection(em, pw) ==
  IF ~EmailTaken(em) THEN {ErrUserNotFound}
  ELSE IF \E u \in Uids : accounts[u].exists /\ accounts[u].email = em /\ accounts[u].password = pw
    THEN {} ELSE {ErrWrongPassword}

\* await signInWithEmailAndPassword(auth, email, password); return userCredential.user
SignInCall(p) ==
  /\ proc[p].pc = "si_call"
  /\ \/ /\ SignInRejection(proc[p].email, proc[p].password) = {}
        /\ \E u \in Uids :
             /\ accounts[u].exists /\ accounts[u].email = proc[p].email
             /\ SetCurrentUser(u)
             /\ proc' = [proc EXCEPT ![p] = [Return(p, Ok(u)) EXCEPT !.uid = u]]
     \/ /\ \E e \in SignInRejection(proc[p].email, proc[p].password) \cup {ErrNetwork} :
             proc' = [proc EXCEPT ![p] = Caught(p, e, handleAuthError(e))]
        /\ UNCHANGED <<currentUser, authQ>>
  /\ UNCHANGED <<appVars, catalogVars, mappingVars, sessionVars, scope, listeners, lastArg, accounts, users, platformVars, now,
                 writeCalls>>


\* ---- signInWithGoogle
ErrPopupClosed == Err("auth/popup-closed-by-user", "Firebase: Error (auth/popup-closed-by-user).")
ErrCancelled == Err("SIGN_IN_CANCELLED", "Sign in action cancelled")
ErrInProgress == Err("IN_PROGRESS", "Sign-in in progress")
ErrPlayServices == Err("PLAY_SERVICES_NOT_AVAILABLE", "Play services not available")
ErrDeveloper == Err("10", "DEVELOPER_ERROR")
ErrUnavailable == Err(NoCode, "Google Sign-In requires a custom development build. Please use email/password sign-in or create a custom dev build with EAS Build.")
ErrNoIdToken == Err(NoCode, "Google sign-in failed: missing id_token. Please check your SHA-1 fingerprint is registered in Firebase Console.")

\* String.prototype.includes over the messages the collaborators produce
Includes(message, needle) ==
  \/ needle = "popup" /\ message = ErrPopupClosed.message
  \/ needle = "DEVELOPER_ERROR" /\ message = ErrDeveloper.message

DeveloperMessage(original) ==
  "DEVELOPER_ERROR: " \o original \o "\n\nPlease check:\n1. SHA-1 fingerprint (7C:02:ED:E8:5B:A0:DC:6E:78:F0:4B:86:9D:47:9C:0A:2F:77:C7:A4) is registered in Firebase Console for package: com.fruitzy.app\n2. Android OAuth client ID is configured in Google Cloud Console with the same SHA-1\n3. webClientId matches your Firebase Web Client ID\n4. Package name in Firebase Console matches: com.fruitzy.app"

\* the catch block of signInWithGoogle: every throw is a new Error, which has no code
GoogleCatchViaHandleAuthError(error) == handleAuthError(error)

GoogleCatch(error) ==
  IF GoogleSignin /\ error.code = "SIGN_IN_CANCELLED"
    THEN Err(NoCode, "Google sign-in was cancelled")
  ELSE IF GoogleSignin /\ error.code = "IN_PROGRESS"
    THEN Err(NoCode, "Google sign-in is already in progress")
  ELSE IF GoogleSignin /\ error.code = "PLAY_SERVICES_NOT_AVAILABLE"
    THEN Err(NoCode, "Google Play Services is not available")
  ELSE IF error.code = "10" \/ Includes(error.message, "DEVELOPER_ERROR")
    THEN Err(NoCode, DeveloperMessage(error.message))
  ELSE IF Includes(error.message, "popup") \/ Includes(error.message, "pop-up")
    THEN Err(NoCode, "Google sign-in popup was blocked. Please allow popups and try again.")
  ELSE Err(NoCode, IF Truthy(error.message) THEN error.message ELSE "Unknown Google Sign-In error")

\* the UserData written by signInWithGoogle (web branch, native branch)
WebUserData(u) ==
  [exists |-> TRUE, email |-> OrEmpty(accounts[u].email), fullName |-> OrEmpty(accounts[u].displayName),
   username |-> "", createdAt |-> now, emailVerified |-> TRUE]

NativeUserDataFromIdentity(u) ==
  [exists |-> TRUE, email |-> OrEmpty(accounts[u].email), fullName |-> OrEmpty(accounts[u].displayName),
   username |-> "", createdAt |-> now, emailVerified |-> accounts[u].emailVerified]

NativeUserData(u) ==
  [exists |-> TRUE, email |-> OrEmpty(accounts[u].email), fullName |-> OrEmpty(accounts[u].displayName),
   username |-> "", createdAt |-> now, emailVerified |-> TRUE]

\* the branch signInWithGoogle takes: the conditions of its if / else if / else
Strategy ==
  IF platformOS = "web" THEN "Web"
  ELSE IF ~isGoogleSignInAvailable \/ ~GoogleSignin THEN "Unavailable"
  ELSE "NativeModule"

\* the dispatch on the platform, up to the first await (or the throw when unavailable)
signInWithGoogleWebFallback(p) ==
  /\ Call(p, IF platformOS = "web" \/ ~isGoogleSignInAvailable \/ ~GoogleSignin
               THEN Fresh("google", "gw_popup", Null, Null, Null, Null)
               ELSE Fresh("google", "gn_play", Null, Null, Null, Null))
  /\ UNCHANGED <<appVars, catalogVars, mappingVars, sessionVars, observerVars, backendVars, users, platformVars, writeCalls>>

signInWithGoogle(p) ==
  /\ Call(p, IF platformOS = "web"
               THEN Fresh("google", "gw_popup", Null, Null, Null, Null)
             ELSE IF ~isGoogleSignInAvailable \/ ~GoogleSignin
               THEN [Fresh("google", "idle", Null, Null, Null, Null)
                       EXCEPT !.result = Failed(GoogleCatch(ErrUnavailable)),
                              !.caught = ErrUnavailable]
             ELSE Fresh("google", "gn_play", Null, Null, Null, Null))
  /\ UNCHANGED <<appVars, catalogVars, mappingVars, sessionVars, observerVars, backendVars, users, platformVars, writeCalls>>

\* the backend signs the federated identity in: into its account, or into a new one
FederatedSignIn(p, nextPc) ==
  \/ \E u \in Uids :
       /\ accounts[u].exists
       /\ SetCurrentUser(u)
       /\ proc' = [proc EXCEPT ![p] = [Goto(p, nextPc) EXCEPT !.uid = u]]
       /\ UNCHANGED accounts
  \/ /\ FreeUids # {}
     /\ \E a \in FedAttrs :
          accounts' = [accounts EXCEPT ![NewUid] =
                         [exists |-> TRUE, email |-> a.email, displayName |-> a.displayName,
                          emailVerified |-> a.emailVerified, password |-> Null]]
     /\ SetCurrentUser(NewUid)
     /\ proc' = [proc EXCEPT ![p] = [Goto(p, nextPc) EXCEPT !.uid = NewUid]]

\* await signInWithPopup(auth, provider)
GoogleWebPopup(p) ==
  /\ proc[p].pc = "gw_popup"
  /\ \/ FederatedSignIn(p, "gw_read")
     \/ /\ \E e \in {ErrPopupClosed, ErrNetwork} :
             proc' = [proc EXCEPT ![p] = Caught(p, e, GoogleCatch(e))]
        /\ UNCHANGED <<currentUser, accounts, authQ>>
  /\ UNCHANGED <<appVars, catalogVars, mappingVars, sessionVars, scope, listeners, lastArg, users, platformVars, now, writeCalls>>

\* await getDoc(doc(db, 'users', user.uid)), then the branch on userDoc.exists()
GoogleGetDocInverted(p, atPc, writePc) ==
  /\ proc[p].pc = atPc
  /\ proc' = [proc EXCEPT ![p] =
                IF ~users[proc[p].uid].exists
                  THEN [Return(p, Ok(proc[p].uid)) EXCEPT !.nRead = @ + 1]
                  ELSE [Goto(p, writePc) EXCEPT !.nRead = @ + 1]]
  /\ UNCHANGED <<appVars, catalogVars, mappingVars, sessionVars, observerVars, backendVars, users, platformVars, now, writeCalls>>

GoogleGetDocAlwaysWrites(p, atPc, writePc) ==
  /\ proc[p].pc = atPc
  /\ proc' = [proc EXCEPT ![p] = [Goto(p, writePc) EXCEPT !.nRead = @ + 1]]
  /\ UNCHANGED <<appVars, catalogVars, mappingVars, sessionVars, observerVars, backendVars, users, platformVars, now, writeCalls>>

GoogleGetDoc(p, atPc, writePc) ==
  /\ proc[p].pc = atPc
  /\ \/ proc' = [proc EXCEPT ![p] =
                   IF users[proc[p].uid].exists
                     THEN [Return(p, Ok(proc[p].uid)) EXCEPT !.nRead = @ + 1]
                     ELSE [Goto(p, writePc) EXCEPT !.nRead = @ + 1]]
     \/ proc' = [proc EXCEPT ![p] = [Caught(p, ErrStore, GoogleCatch(ErrStore))
                                       EXCEPT !.nRead = @ + 1, !.storeFailed = TRUE]]
  /\ UNCHANGED <<appVars, catalogVars, mappingVars, sessionVars, observerVars, backendVars, users, platformVars, now, writeCalls>>

\* await setDoc(doc(db, 'users', user.uid), userData); return user
GoogleSetDoc(p, atPc, userData) ==
  /\ proc[p].pc = atPc
  /\ writeCalls' = [writeCalls EXCEPT ![proc[p].uid] = @ + 1]
  /\ \/ /\ users' = [users EXCEPT ![proc[p].uid] = userData]
        /\ proc' = [proc EXCEPT ![p] = [Return(p, Ok(proc[p].uid)) EXCEPT !.nWrite = @ + 1]]
     \/ /\ proc' = [proc EXCEPT ![p] =
                      [Caught(p, ErrStore, GoogleCatch(ErrStore))
                         EXCEPT !.nWrite = @ + 1, !.storeFailed = TRUE]]
        /\ UNCHANGED users
  /\ UNCHANGED <<appVars, catalogVars, mappingVars, sessionVars, observerVars, backendVars, platformVars, now>>

GoogleWebGetDoc(p) == GoogleGetDoc(p, "gw_read", "gw_write")

GoogleWebSetDoc(p) == GoogleSetDoc(p, "gw_write", WebUserData(proc[p].uid))


\* await GoogleSignin.hasPlayServices(...)
GoogleNativePlayServices(p) ==
  /\ proc[p].pc = "gn_play"
  /\ \/ proc' = [proc EXCEPT ![p] = Goto(p, "gn_signout")]
     \/ proc' = [proc EXCEPT ![p] = Caught(p, ErrPlayServices, GoogleCatch(ErrPlayServices))]
  /\ UNCHANGED <<appVars, catalogVars, mappingVars, sessionVars, observerVars, backendVars, users, platformVars, now, writeCalls>>

\* try { await GoogleSignin.signOut() } catch { } : a throw is ignored
GoogleNativeSignOutFirst(p) ==
  /\ proc[p].pc = "gn_signout"
  /\ \E threw \in BOOLEAN :
       proc' = [proc EXCEPT ![p] = [Goto(p, "gn_signin") EXCEPT !.providerThrew = threw]]
  /\ UNCHANGED <<appVars, catalogVars, mappingVars, sessionVars, observerVars, backendVars, users, platformVars, now, writeCalls>>

\* await GoogleSignin.signIn(), then the check of idToken
GoogleNativeSignIn(p) ==
  /\ proc[p].pc = "gn_signin"
  /\ \/ proc' = [proc EXCEPT ![p] = Goto(p, "gn_credential")]
     \/ \E e \in {ErrNoIdToken, ErrCancelled, ErrInProgress, ErrDeveloper} :
          proc' = [proc EXCEPT ![p] = Caught(p, e, GoogleCatch(e))]
  /\ UNCHANGED <<appVars, catalogVars, mappingVars, sessionVars, observerVars, backendVars, users, platformVars, now, writeCalls>>

\* await signInWithCredential(auth, googleCredential)
GoogleNativeCredential(p) ==
  /\ proc[p].pc = "gn_credential"
  /\ \/ FederatedSignIn(p, "gn_read")
     \/ /\ proc' = [proc EXCEPT ![p] = Caught(p, ErrNetwork, GoogleCatch(ErrNetwork))]
        /\ UNCHANGED <<currentUser, accounts, authQ>>
  /\ UNCHANGED <<appVars, catalogVars, mappingVars, sessionVars, scope, listeners, lastArg, users, platformVars, now, writeCalls>>

GoogleNativeGetDoc(p) == GoogleGetDoc(p, "gn_read", "gn_write")

GoogleNativeSetDoc(p) == GoogleSetDoc(p, "gn_write", NativeUserData(proc[p].uid))

\* ---- signOut
signOutClearsSession(p) ==
  /\ Call(p, Fresh("signOut", "so_backend", Null, Null, Null, Null))
  /\ user' = NoUser
  /\ UNCHANGED <<appVars, catalogVars, mappingVars, loading, initializing, observerVars, backendVars, users, platformVars, writeCalls>>

signOut(p) ==
  /\ Call(p, Fresh("signOut", "so_backend", Null, Null, Null, Null))
  /\ UNCHANGED <<appVars, catalogVars, mappingVars, sessionVars, observerVars, backendVars, users, platformVars, writeCalls>>

\* whether signOut goes on to GoogleSignin.signOut()
RevokesProviderWhenLoaded == platformOS # "web" /\ GoogleSignin

RevokesProvider == platformOS # "web" /\ isGoogleSignInAvailable /\ GoogleSignin

\* await firebaseSignOut(auth), then the branch on the platform
SignOutBackend(p) ==
  /\ proc[p].pc = "so_backend"
  /\ \/ /\ SetCurrentUser(NoUser)
        /\ proc' = [proc EXCEPT ![p] = IF RevokesProvider THEN Goto(p, "so_google")
                                        ELSE Return(p, Ok(NoUser))]
     \/ /\ proc' = [proc EXCEPT ![p] = Caught(p, ErrNetwork, handleAuthError(ErrNetwork))]
        /\ UNCHANGED <<currentUser, authQ>>
  /\ UNCHANGED <<appVars, catalogVars, mappingVars, sessionVars, scope, listeners, lastArg, accounts, users, platformVars, now,
                 writeCalls>>

\* what signOut settles with after GoogleSignin.signOut() settled
SignOutProviderRethrows(p, threw) ==
  IF threw THEN Caught(p, ErrCancelled, handleAuthError(ErrCancelled)) ELSE Return(p, Ok(NoUser))

SignOutProviderResult(p, threw) == Return(p, Ok(NoUser))

\* try { await GoogleSignin.signOut() } catch (error) { console.log(...) }
SignOutProvider(p) ==
  /\ proc[p].pc = "so_google"
  /\ \E threw \in BOOLEAN :
       proc' = [proc EXCEPT ![p] = [SignOutProviderResult(p, threw) EXCEPT !.providerThrew = threw]]
  /\ UNCHANGED <<appVars, catalogVars, mappingVars, sessionVars, observerVars, backendVars, users, platformVars, now, writeCalls>>

\* ---- resetPassword
resetPassword(p) ==
  /\ \E em \in SignInEmails : Call(p, Fresh("resetPassword", "rp_send", em, Null, Null, Null))
  /\ UNCHANGED <<appVars, catalogVars, mappingVars, sessionVars, observerVars, backendVars, users, platformVars, writeCalls>>

\* await sendPasswordResetEmail(auth, email)
ResetPasswordSend(p) ==
  /\ proc[p].pc = "rp_send"
  /\ \/ /\ EmailTaken(proc[p].email)
        /\ proc' = [proc EXCEPT ![p] = [Return(p, Ok(NoUser)) EXCEPT !.nMail = @ + 1]]
     \/ \E e \in (IF EmailTaken(proc[p].email) THEN {} ELSE {ErrUserNotFound}) \cup {ErrNetwork} :
          proc' = [proc EXCEPT ![p] = Caught(p, e, handleAuthError(e))]
  /\ UNCHANGED <<appVars, catalogVars, mappingVars, sessionVars, observerVars, backendVars, users, platformVars, now, writeCalls>>

\* ---- resendEmailVerification
\* const user = auth.currentUser; if (!user) throw ...: up to the first await
ResendSendsAnyway(p) ==
  Fresh("resend", "rv_send", Null, Null, Null, Null)

ResendEntry(p) ==
  IF currentUser = NoUser
    THEN [Fresh("resend", "idle", Null, Null, Null, Null)
            EXCEPT !.result = Failed(handleAuthError(ErrNoUser)), !.caught = ErrNoUser]
    ELSE [Fresh("resend", "rv_send", Null, Null, Null, Null) EXCEPT !.uid = currentUser]

resendEmailVerification(p) ==
  /\ Call(p, ResendEntry(p))
  /\ UNCHANGED <<appVars, catalogVars, mappingVars, sessionVars, observerVars, backendVars, users, platformVars, writeCalls>>

\* await sendEmailVerification(user)
ResendSend(p) ==
  /\ proc[p].pc = "rv_send"
  /\ \/ proc' = [proc EXCEPT ![p] = [Return(p, Ok(NoUser)) EXCEPT !.nMail = @ + 1]]
     \/ proc' = [proc EXCEPT ![p] =
                   Caught(p, Err("auth/too-many-requests",
                                     "Firebase: Error (auth/too-many-requests)."), handleAuthError(Err("auth/too-many-requests",
                                     "Firebase: Error (auth/too-many-requests).")))]
  /\ UNCHANGED <<appVars, catalogVars, mappingVars, sessionVars, observerVars, backendVars, users, platformVars, now, writeCalls>>

\* ---- getUserData
getUserData(p) ==
  /\ \E u \in Uids : Call(p, [Fresh("getUserData", "gd_read", Null, Null, Null, Null) EXCEPT !.uid = u])
  /\ UNCHANGED <<appVars, catalogVars, mappingVars, sessionVars, observerVars, backendVars, users, platformVars, writeCalls>>

\* await getDoc(doc(db, 'users', uid)); the data if it exists, else null
GetUserDataRead(p) ==
  /\ proc[p].pc = "gd_read"
  /\ \/ proc' = [proc EXCEPT ![p] = [Return(p, OkDoc(users[proc[p].uid])) EXCEPT !.nRead = @ + 1]]
     \/ proc' = [proc EXCEPT ![p] =
                   [Caught(p, ErrStore, handleAuthError(ErrStore)) EXCEPT !.nRead = @ + 1]]
  /\ UNCHANGED <<appVars, catalogVars, mappingVars, sessionVars, observerVars, backendVars, users, platformVars, now, writeCalls>>

\* ---------------------------------------------------------------- specification
\* a Credential Operation is called
Start(p) ==
  \/ signUpWithEmail(p)
  \/ signInWithEmail(p)
  \/ signInWithGoogle(p)
  \/ signOut(p)
  \/ resetPassword(p)
  \/ resendEmailVerification(p)
  \/ getUserData(p)

\* a running operation resumes from its await
Step(p) ==
  \/ SignUpCreate(p)
  \/ SignUpUpdateProfile(p)
  \/ SignUpSendVerification(p)
  \/ SignUpSetDoc(p)
  \/ SignInCall(p)
  \/ GoogleWebPopup(p)
  \/ GoogleWebGetDoc(p)
  \/ GoogleWebSetDoc(p)
  \/ GoogleNativePlayServices(p)
  \/ GoogleNativeSignOutFirst(p)
  \/ GoogleNativeSignIn(p)
  \/ GoogleNativeCredential(p)
  \/ GoogleNativeGetDoc(p)
  \/ GoogleNativeSetDoc(p)
  \/ SignOutBackend(p)
  \/ SignOutProvider(p)
  \/ ResetPasswordSend(p)
  \/ ResendSend(p)
  \/ GetUserDataRead(p)

Next ==
  \/ Mount
  \/ Unmount
  \/ ObserverCallback
  \/ configureGoogleSignIn
  \/ Start(Main)
  \/ Step(Main)

Spec == Init /\ [][Next]_vars


\* the backend delivers every pending notification to a registered callback
SpecLive == Spec /\ WF_vars(ObserverCallback)

\* ---------------------------------------------------------------- handleAuthError on its own
MaxCalls == 2         \* calls of handleAuthError on one error

\* the errors a catch block can hand to handleAuthError: any code, known or not, or
\* none, with a message, an empty one or none
RawCodes == KnownCodes \cup {"permission-denied", "auth/internal-error", NoCode}
RawMessages == {Null, "", "Firebase: Error.", "Missing or insufficient permissions."}

InitMapping ==
  /\ AppInit
  /\ AppContentInit
  /\ CatalogIdle
  /\ rawError \in {Err(c, m) : c \in RawCodes, m \in RawMessages}
  /\ thrown = NoError /\ calls = 0

\* throw handleAuthError(error)
HandleAuthError ==
  /\ calls < MaxCalls
  /\ calls' = calls + 1
  /\ thrown' = handleAuthError(rawError)
  /\ UNCHANGED <<appVars, catalogVars, rawError, sessionVars, observerVars, backendVars, users, platformVars, proc,
                 now, writeCalls>>

NextMapping == HandleAuthError

SpecMapping == InitMapping /\ [][NextMapping]_vars


\* ---------------------------------------------------------------- concurrent federated sign-ins
\* the operations do not exclude one another: a second federated sign-in can be called
\* while the first is suspended at an await, and the two resume in any order
FederatedStep(p) ==
  \/ signInWithGoogle(p)
  \/ GoogleWebPopup(p)
  \/ GoogleWebGetDoc(p)
  \/ GoogleWebSetDoc(p)
  \/ GoogleNativePlayServices(p)
  \/ GoogleNativeSignOutFirst(p)
  \/ GoogleNativeSignIn(p)
  \/ GoogleNativeCredential(p)
  \/ GoogleNativeGetDoc(p)
  \/ GoogleNativeSetDoc(p)

NextConcurrent ==
  \/ Mount
  \/ Unmount
  \/ ObserverCallback
  \/ configureGoogleSignIn
  \/ \E p \in Procs : FederatedStep(p)

SpecConcurrent == Init /\ [][NextConcurrent]_vars


\* ---------------------------------------------------------------- AppContent
AuthViews == {"landing-signin", "email-signin", "landing-signup", "email-signup"}

\* what AppContent renders: the spinner while the Session loads, the main app for an
\* authenticated or skipping user, the auth screen of authView otherwise
Rendered ==
  IF loading THEN "loading"
  ELSE IF isAuthenticated \/ skipAuth THEN "app"
  ELSE authView

\* the callbacks AppContent hands to the screen of each authView
NavTargets(view) ==
  CASE view = "landing-signin" -> {"email-signin", "landing-signup"}
    [] view = "email-signin" -> {"landing-signup", "landing-signin"}
    [] view = "landing-signup" -> {"email-signup", "landing-signin"}
    [] view = "email-signup" -> {"landing-signin", "landing-signup"}

\* onEmailSignIn, onSwitchToSignUp, onSwitchToSignIn, onEmailSignUp, onBack
Navigate ==
  /\ Rendered \in AuthViews
  /\ \E target \in NavTargets(authView) : authView' = target
  /\ UNCHANGED <<skipAuth, handler, catalogVars, mappingVars, sessionVars, observerVars, backendVars,
                 users, platformVars, proc, now, writeCalls>>

\* onSkipAuth of the landing sign-in screen
SkipAuth ==
  /\ Rendered = "landing-signin"
  /\ skipAuth' = TRUE
  /\ UNCHANGED <<authView, handler, catalogVars, mappingVars, sessionVars, observerVars, backendVars,
                 users, platformVars, proc, now, writeCalls>>

\* what the user typed into the sign-up form, and email.trim().toLowerCase() of it
TypedEmails == {"a@b.com", " A@B.com "}
TrimLowerCase(typed) == IF typed = " A@B.com " THEN "a@b.com" ELSE typed

\* handleEmailSignUp of the sign-up screen, up to its await: the form is valid
handleEmailSignUp ==
  /\ Rendered = "email-signup"
  /\ handler = "none"
  /\ \E typed \in TypedEmails :
       Call(Main, Fresh("signUp", "su_create", TrimLowerCase(typed), SignUpPassword, Null, Null))
  /\ handler' = "signUp"
  /\ UNCHANGED <<authView, skipAuth, catalogVars, mappingVars, sessionVars, observerVars, backendVars,
                 users, platformVars, writeCalls>>

\* handleEmailSignUp after its await: onSignUpSuccess() when signUpWithEmail resolved,
\* the error toast when it rejected
HandleEmailSignUpResume ==
  /\ handler = "signUp"
  /\ proc[Main].pc = "idle"
  /\ authView' = IF proc[Main].result.status = "ok" THEN "email-signin" ELSE authView
  /\ handler' = "none"
  /\ UNCHANGED <<skipAuth, catalogVars, mappingVars, sessionVars, observerVars, backendVars,
                 users, platformVars, proc, now, writeCalls>>

\* handleSignOut of AppContent, called from the main app, up to its await
handleSignOut ==
  /\ Rendered = "app"
  /\ handler = "none"
  /\ Call(Main, Fresh("signOut", "so_backend", Null, Null, Null, Null))
  /\ handler' = "signOut"
  /\ UNCHANGED <<authView, skipAuth, catalogVars, mappingVars, sessionVars, observerVars, backendVars,
                 users, platformVars, writeCalls>>

\* handleSignOut after its await: the local state is reset when signOut resolved
HandleSignOutResume ==
  /\ handler = "signOut"
  /\ proc[Main].pc = "idle"
  /\ IF proc[Main].result.status = "ok"
       THEN skipAuth' = FALSE /\ authView' = "landing-signin"
       ELSE UNCHANGED <<skipAuth, authView>>
  /\ handler' = "none"
  /\ UNCHANGED <<catalogVars, mappingVars, sessionVars, observerVars, backendVars,
                 users, platformVars, proc, now, writeCalls>>

NextApp ==
  \/ configureGoogleSignIn
  \/ Mount
  \/ ObserverCallback
  \/ Navigate
  \/ SkipAuth
  \/ handleEmailSignUp
  \/ SignUpCreate(Main)
  \/ SignUpSendVerification(Main)
  \/ HandleEmailSignUpResume
  \/ handleSignOut
  \/ SignOutBackend(Main)
  \/ SignOutProvider(Main)
  \/ HandleSignOutResume

SpecApp == Init /\ [][NextApp]_vars


\* ---------------------------------------------------------------- HomeScreen: priority order
\* Priority products to show first on the home screen (by imageKey)
PRIORITY_PRODUCTS == <<"mango", "strawberry", "chicken", "bread", "avocadoPremium">>
INITIAL_LOAD_COUNT == Len(PRIORITY_PRODUCTS)
LOAD_MORE_COUNT == 5

\* PRIORITY_PRODUCTS.includes(product.imageKey || '')
IsPriority(product) == OrEmpty(product.imageKey) \in Range(PRIORITY_PRODUCTS)

\* products.find((p) => p.imageKey === priorityImageKey), as a list of at most one product
Find(products, priorityImageKey) ==
  LET hits == {i \in 1..Len(products) : products[i].imageKey = priorityImageKey}
  IN IF hits = {} THEN <<>>
     ELSE <<products[CHOOSE i \in hits : \A j \in hits : i <= j]>>

\* PRIORITY_PRODUCTS.forEach(...) from the k-th key on
RECURSIVE PriorityFrom(_, _)
PriorityFrom(products, k) ==
  IF k > Len(PRIORITY_PRODUCTS) THEN <<>>
  ELSE Find(products, PRIORITY_PRODUCTS[k]) \o PriorityFrom(products, k + 1)

sortProductsByPriority(products) ==
  LET priorityProducts == PriorityFrom(products, 1)
      otherProducts == SelectSeq(products, LAMBDA product : ~IsPriority(product))
  IN priorityProducts \o otherProducts

\* array.slice(0, n)
Slice(s, n) == SubSeq(s, 1, IF n < Len(s) THEN n ELSE Len(s))

\* lists of distinct products of the pool, up to a length
MaxLen == 3
RECURSIVE ListsOf(_, _)
ListsOf(pool, n) ==
  IF n = 0 THEN {<<>>}
  ELSE LET shorter == ListsOf(pool, n - 1)
       IN shorter \cup {Append(s, p) : s \in {t \in shorter : Len(t) = n - 1},
                                        p \in pool} 

Distinct(s) == \A i, j \in 1..Len(s) : s[i].id = s[j].id => i = j

InitSort ==
  /\ AppInit
  /\ AppContentInit
  /\ rawError = NoError /\ thrown = NoError /\ calls = 0
  /\ inventory = [id \in ProductIds |-> NoDoc]
  /\ ScreensIdle
  /\ unsorted \in {s \in ListsOf(ProductPool, MaxLen) : Distinct(s)}
  /\ sortOutput = <<>> /\ sorted = FALSE

\* const sortedProducts = sortProductsByPriority(fetchedProducts)
SortProductsByPriority ==
  /\ ~sorted
  /\ sorted' = TRUE
  /\ sortOutput' = sortProductsByPriority(unsorted)
  /\ UNCHANGED <<unsorted, inventory, seedVars, homeVars, cartVars, searchVars, appVars, mappingVars, sessionVars, observerVars, backendVars,
                 users, platformVars, proc, now, writeCalls>>

NextSort == SortProductsByPriority

SpecSort == InitSort /\ [][NextSort]_vars


\* ---------------------------------------------------------------- inventory collection
MaxFaults == 1        \* store calls the document store rejects in one run
MaxRuns == 2          \* seedInventory calls made one after another

StoredIds == {id \in ProductIds : inventory[id].exists}
InventoryDoc(product) == [exists |-> TRUE, data |-> product]

\* the collection as other clients left it: empty, or holding the seeded products and
\* the foreign ones, one of the seeded products with a stock that was changed since
Populated ==
  [id \in ProductIds |->
     IF id = 1 THEN InventoryDoc(Product(1, "Mango", 7, "mango"))
     ELSE InventoryDoc(CHOOSE product \in ProductPool : product.id = id)]

Empty == [id \in ProductIds |-> NoDoc]

\* getDocs(inventoryCollection): the documents in the order of their ids
RECURSIVE InOrder(_)
InOrder(ids) ==
  IF ids = {} THEN <<>>
  ELSE LET first == CHOOSE id \in ids : \A other \in ids : id <= other
       IN <<inventory[first].data>> \o InOrder(ids \ {first})

Snapshot == InOrder(StoredIds)

\* a store call is rejected
Fault == faults < MaxFaults /\ faults' = faults + 1
NoFault == faults' = faults

\* ---------------------------------------------------------------- seedInventory
Count(results, status) == Len(SelectSeq(results, LAMBDA r : r = status))

\* the value seedInventory returns
Report(results) ==
  [success |-> Count(results, "failed") = 0,
   total |-> Len(results),
   added |-> Count(results, "success"),
   skipped |-> Count(results, "skipped"),
   failed |-> Count(results, "failed")]

\* seedInventory runs to the getDoc of its first product
SeedStart == [pc |-> "getDoc", i |-> 1, results |-> <<>>, report |-> NoReport]

\* results.push({..., status}), then the next product's getDoc or the return
SeedPushOverwrites(status) ==
  LET results == Append(seed.results, status)
  IN IF seed.i < Len(productsData)
       THEN [seed EXCEPT !.pc = "setDoc", !.i = @ + 1, !.results = results]
       ELSE [seed EXCEPT !.pc = "done", !.results = results, !.report = Report(results)]

SeedPush(status) ==
  LET results == Append(seed.results, status)
  IN IF seed.i < Len(productsData)
       THEN [seed EXCEPT !.pc = "getDoc", !.i = @ + 1, !.results = results]
       ELSE [seed EXCEPT !.pc = "done", !.results = results, !.report = Report(results)]

\* return { success, results, summary, message }
SeedReturns == runs' = IF seed'.pc = "done" THEN Append(runs, seed'.report) ELSE runs

\* const existingDoc = await getDoc(productDoc); if (!existingDoc.exists()) ... else skipped
SeedGetDoc ==
  /\ seed.pc = "getDoc"
  /\ \/ /\ NoFault
        /\ seed' = IF inventory[productsData[seed.i].id].exists
                     THEN SeedPush("skipped")
                     ELSE [seed EXCEPT !.pc = "setDoc"]
     \/ /\ Fault
        /\ seed' = SeedPush("failed")
  /\ SeedReturns
  /\ UNCHANGED <<inventory, sortVars, homeVars, cartVars, searchVars, appVars, mappingVars, sessionVars,
                 observerVars, backendVars, users, platformVars, proc, now, writeCalls>>

\* await setDoc(productDoc, productData); results.push(added)
SeedSetDoc ==
  /\ seed.pc = "setDoc"
  /\ \/ /\ NoFault
        /\ inventory' = [inventory EXCEPT ![productsData[seed.i].id] =
                           InventoryDoc(productsData[seed.i])]
        /\ seed' = SeedPush("success")
     \/ /\ Fault
        /\ seed' = SeedPush("failed")
        /\ UNCHANGED inventory
  /\ SeedReturns
  /\ UNCHANGED <<sortVars, homeVars, cartVars, searchVars, appVars, mappingVars, sessionVars,
                 observerVars, backendVars, users, platformVars, proc, now, writeCalls>>

\* seedInventory() called when no run is in progress; each run may meet its own faults
seedInventory ==
  /\ seed.pc \in {"idle", "done"}
  /\ Len(runs) < MaxRuns
  /\ faults' = 0
  /\ seed' = SeedStart
  /\ UNCHANGED <<runs, inventory, sortVars, homeVars, cartVars, searchVars, appVars, mappingVars, sessionVars,
                 observerVars, backendVars, users, platformVars, proc, now, writeCalls>>

InitSeed ==
  /\ AppInit
  /\ AppContentInit
  /\ rawError = NoError /\ thrown = NoError /\ calls = 0
  /\ SortIdle
  /\ ScreensIdle
  /\ inventory \in {Empty, Populated, [Populated EXCEPT ![5] = NoDoc, ![12] = NoDoc]}

NextSeed ==
  \/ seedInventory
  \/ SeedGetDoc
  \/ SeedSetDoc

SpecSeed == InitSeed /\ [][NextSeed]_vars


\* ---------------------------------------------------------------- HomeScreen
\* the product list is what HomeScreen renders: neither the spinner nor the error screen
ListRendered == initPc # "none" /\ ~home.loading /\ home.error = Null

\* useEffect(() => { initializeInventory(); loadProducts(); }, []): both run to their
\* first await
HomeMount ==
  /\ initPc = "none"
  /\ initPc' = "check"
  /\ loadPc' = "mount"
  /\ home' = [home EXCEPT !.loading = TRUE, !.error = Null]
  /\ UNCHANGED <<timer, inventory, sortVars, seedVars, cartVars, searchVars, appVars, mappingVars, sessionVars,
                 observerVars, backendVars, users, platformVars, proc, now, writeCalls>>

\* checkInventoryCollection() settled: count is the size of the collection, or 0 when
\* getDocs failed; seedInventory is called when count === 0
CheckInventoryResume ==
  /\ initPc = "check"
  /\ \E count \in {Cardinality(StoredIds), 0} :
       /\ IF count = Cardinality(StoredIds) THEN NoFault ELSE Fault
       /\ IF count = 0
            THEN initPc' = "seed" /\ seed' = SeedStart
            ELSE initPc' = "done" /\ UNCHANGED seed
  /\ UNCHANGED <<runs, home, loadPc, timer, inventory, sortVars, cartVars, searchVars, appVars, mappingVars,
                 sessionVars, observerVars, backendVars, users, platformVars, proc, now, writeCalls>>

\* seedInventory() settled: initializeInventory logs the summary
InitializeInventoryResume ==
  /\ initPc = "seed"
  /\ seed.pc = "done"
  /\ initPc' = "done"
  /\ UNCHANGED <<home, loadPc, timer, inventory, sortVars, seedVars, cartVars, searchVars, appVars, mappingVars,
                 sessionVars, observerVars, backendVars, users, platformVars, proc, now, writeCalls>>

\* the state loadProducts sets once fetchProducts() resolved with fetchedProducts
Loaded(fetchedProducts) ==
  LET sortedProducts == sortProductsByPriority(fetchedProducts)
  IN [home EXCEPT !.allProducts = sortedProducts,
                  !.displayedProducts = Slice(sortedProducts, INITIAL_LOAD_COUNT),
                  !.loading = FALSE]

\* loadProducts after its await; called by handleResetStock, that handler's
\* continuation follows: the toast and setResetting(false)
LoadProductsResume ==
  /\ loadPc # "idle"
  /\ \/ /\ NoFault
        /\ home' = [Loaded(Snapshot) EXCEPT !.resetting = FALSE]
     \/ /\ Fault
        /\ home' = [home EXCEPT !.error = "Failed to load products", !.loading = FALSE,
                                !.resetting = FALSE]
  /\ toast' = IF loadPc = "refresh" THEN "Products refreshed" ELSE toast
  /\ loadPc' = "idle"
  /\ UNCHANGED <<cart, initPc, timer, inventory, seed, runs, sortVars, searchVars, appVars, mappingVars,
                 sessionVars, observerVars, backendVars, users, platformVars, proc, now, writeCalls>>

\* handleScroll close to the bottom: handleLoadMore sets the timer
handleLoadMore ==
  /\ ListRendered
  /\ ~(home.loadingMore \/ Len(home.displayedProducts) >= Len(home.allProducts))
  /\ home' = [home EXCEPT !.loadingMore = TRUE]
  /\ timer' = [pending |-> TRUE, displayedProducts |-> home.displayedProducts,
               allProducts |-> home.allProducts]
  /\ UNCHANGED <<initPc, loadPc, inventory, sortVars, seedVars, cartVars, searchVars, appVars, mappingVars,
                 sessionVars, observerVars, backendVars, users, platformVars, proc, now, writeCalls>>

\* the setTimeout callback, with the displayedProducts and allProducts of the render
\* that called handleLoadMore
LoadMoreTimeout ==
  /\ timer.pending
  /\ LET currentLength == Len(timer.displayedProducts)
         nextProducts == Slice(timer.allProducts, currentLength + LOAD_MORE_COUNT)
     IN home' = [home EXCEPT !.displayedProducts = nextProducts, !.loadingMore = FALSE]
  /\ timer' = NoTimer
  /\ UNCHANGED <<initPc, loadPc, inventory, sortVars, seedVars, cartVars, searchVars, appVars, mappingVars,
                 sessionVars, observerVars, backendVars, users, platformVars, proc, now, writeCalls>>

\* handleResetStock (the Refresh button) up to the await inside loadProducts
handleResetStock ==
  /\ ListRendered
  /\ ~home.resetting
  /\ loadPc = "idle"
  /\ home' = [home EXCEPT !.resetting = TRUE, !.loading = TRUE, !.error = Null]
  /\ loadPc' = "refresh"
  /\ UNCHANGED <<initPc, timer, inventory, sortVars, seedVars, cartVars, searchVars, appVars, mappingVars,
                 sessionVars, observerVars, backendVars, users, platformVars, proc, now, writeCalls>>

\* what an add-to-cart handler does with the product: the call of addToCart, the toast
AddToCartUnchecked(product) ==
  /\ cart' = product
  /\ toast' = "added to your cart"

AddToCartChecked(product) ==
  IF product.stock = 0
    THEN cart' = cart /\ toast' = "is out of stock"
    ELSE cart' = product /\ toast' = "added to your cart"

\* handleAddToCart of HomeScreen, from the card of a displayed product
HomeAddToCart ==
  /\ ListRendered
  /\ \E product \in Range(home.displayedProducts) : AddToCartChecked(product)
  /\ UNCHANGED <<homeVars, inventory, sortVars, seedVars, searchVars, appVars, mappingVars,
                 sessionVars, observerVars, backendVars, users, platformVars, proc, now, writeCalls>>

\* HomeScreen is mounted against an empty collection or against a populated one
InitHome ==
  /\ AppInit
  /\ AppContentInit
  /\ rawError = NoError /\ thrown = NoError /\ calls = 0
  /\ SortIdle
  /\ ScreensIdle
  /\ inventory \in {Empty, Populated}

NextHome ==
  \/ HomeMount
  \/ CheckInventoryResume
  \/ SeedGetDoc
  \/ SeedSetDoc
  \/ InitializeInventoryResume
  \/ LoadProductsResume
  \/ handleLoadMore
  \/ LoadMoreTimeout
  \/ handleResetStock
  \/ HomeAddToCart

SpecHome == InitHome /\ [][NextHome]_vars


\* ---------------------------------------------------------------- SearchScreen
\* Search tags that filter products
SEARCH_TAGS == <<"Sweet Fruits", "Mango", "Strawberry", "Chicken", "Bread", "Avocado Premium",
                 "Fresh Vegetables", "Exotic Fruits">>

\* tag.filter(p) of the tag with that label
TagFilter(label, p) ==
  CASE label = "Sweet Fruits" -> TRUE
    [] label = "Fresh Vegetables" -> p.name \in {"Avocado", "Avocado Premium"}
    [] label = "Exotic Fruits" -> p.name \in {"Durian", "Fig", "Pomegranate"}
    [] OTHER -> p.name = label

\* what the user types into the search input
TypedTexts == {"", " ", "an", "KIWI"}

\* s.toLowerCase(), as its characters, for the product names, the tag labels and the
\* typed texts
ToLowerCase(s) ==
  CASE s = "Mango" -> <<"m", "a", "n", "g", "o">>
    [] s = "Orange" -> <<"o", "r", "a", "n", "g", "e">>
    [] s = "Strawberry" -> <<"s", "t", "r", "a", "w", "b", "e", "r", "r", "y">>
    [] s = "Durian" -> <<"d", "u", "r", "i", "a", "n">>
    [] s = "Chicken" -> <<"c", "h", "i", "c", "k", "e", "n">>
    [] s = "Bread" -> <<"b", "r", "e", "a", "d">>
    [] s = "Avocado Premium" -> <<"a", "v", "o", "c", "a", "d", "o", " ", "p", "r", "e", "m", "i", "u", "m">>
    [] s = "Mango Large" -> <<"m", "a", "n", "g", "o", " ", "l", "a", "r", "g", "e">>
    [] s = "Kiwi" -> <<"k", "i", "w", "i">>
    [] s = "Sweet Fruits" -> <<"s", "w", "e", "e", "t", " ", "f", "r", "u", "i", "t", "s">>
    [] s = "Fresh Vegetables" -> <<"f", "r", "e", "s", "h", " ", "v", "e", "g", "e", "t", "a", "b", "l", "e", "s">>
    [] s = "Exotic Fruits" -> <<"e", "x", "o", "t", "i", "c", " ", "f", "r", "u", "i", "t", "s">>
    [] s = "" -> <<>>
    [] s = " " -> <<" ">>
    [] s = "an" -> <<"a", "n">>
    [] s = "KIWI" -> <<"k", "i", "w", "i">>

\* s.trim() is the empty string
TrimIsEmpty(s) == \A i \in 1..Len(ToLowerCase(s)) : ToLowerCase(s)[i] = " "

\* a.toLowerCase().includes(b.toLowerCase())
IncludesLowerCase(a, b) ==
  LET hay == ToLowerCase(a)
      needle == ToLowerCase(b)
  IN \E k \in 0..(Len(hay) - Len(needle)) : SubSeq(hay, k + 1, k + Len(needle)) = needle

\* what filterProducts sets filteredProducts to
Filtered(searchQuery, allProducts) ==
  IF TrimIsEmpty(searchQuery) THEN <<>>
  ELSE SelectSeq(allProducts, LAMBDA product : IncludesLowerCase(product.name, searchQuery))

showTags == TrimIsEmpty(search.searchQuery) /\ Len(search.filteredProducts) = 0

\* the result cards are rendered
ResultsRendered ==
  /\ searchPc # "none"
  /\ ~TrimIsEmpty(search.searchQuery) \/ Len(search.filteredProducts) > 0
  /\ ~search.loading
  /\ Len(search.filteredProducts) > 0

\* React runs the pending effect before it handles the next event
EffectsFlushed == searchPc # "none" /\ ~effectPending

\* the mount effects: loadProducts() up to its await; filterProducts() on the empty query
SearchMount ==
  /\ searchPc = "none"
  /\ searchPc' = "fetch"
  /\ search' = [search EXCEPT !.filteredProducts = Filtered(search.searchQuery, search.allProducts)]
  /\ UNCHANGED <<effectPending, inventory, sortVars, seedVars, homeVars, cartVars, appVars,
                 mappingVars, sessionVars, observerVars, backendVars, users, platformVars, proc,
                 now, writeCalls>>

\* loadProducts of SearchScreen after its await
SearchLoadResume ==
  /\ searchPc = "fetch"
  /\ EffectsFlushed
  /\ \/ /\ NoFault
        /\ search' = [search EXCEPT !.allProducts = Snapshot, !.loading = FALSE]
        /\ effectPending' = TRUE
     \/ /\ Fault
        /\ search' = [search EXCEPT !.loading = FALSE]
        /\ UNCHANGED effectPending
  /\ searchPc' = "idle"
  /\ UNCHANGED <<inventory, seed, runs, sortVars, homeVars, cartVars, appVars, mappingVars,
                 sessionVars, observerVars, backendVars, users, platformVars, proc, now, writeCalls>>

\* useEffect(() => { filterProducts(); }, [searchQuery, allProducts])
FilterProductsEffect ==
  /\ effectPending
  /\ effectPending' = FALSE
  /\ search' = [search EXCEPT !.filteredProducts = Filtered(search.searchQuery, search.allProducts)]
  /\ UNCHANGED <<searchPc, inventory, sortVars, seedVars, homeVars, cartVars, appVars,
                 mappingVars, sessionVars, observerVars, backendVars, users, platformVars, proc,
                 now, writeCalls>>

\* a state setter of searchQuery schedules the effect when the value changes
QueryBecomes(text) == effectPending' = (text # search.searchQuery)

handleTagPress ==
  /\ EffectsFlushed
  /\ showTags
  /\ \E t \in 1..Len(SEARCH_TAGS) :
       LET label == SEARCH_TAGS[t]
           filtered == SelectSeq(search.allProducts, LAMBDA p : TagFilter(label, p))
       IN /\ search' = [search EXCEPT !.filteredProducts = filtered, !.searchQuery = label]
          /\ QueryBecomes(label)
  /\ UNCHANGED <<searchPc, inventory, sortVars, seedVars, homeVars, cartVars, appVars,
                 mappingVars, sessionVars, observerVars, backendVars, users, platformVars, proc,
                 now, writeCalls>>

handleSearchChange ==
  /\ EffectsFlushed
  /\ \E text \in TypedTexts :
       /\ search' = [search EXCEPT !.searchQuery = text,
                                   !.filteredProducts = IF TrimIsEmpty(text) THEN <<>> ELSE @]
       /\ QueryBecomes(text)
  /\ UNCHANGED <<searchPc, inventory, sortVars, seedVars, homeVars, cartVars, appVars,
                 mappingVars, sessionVars, observerVars, backendVars, users, platformVars, proc,
                 now, writeCalls>>

handleRemoveTags ==
  /\ EffectsFlushed
  /\ showTags
  /\ search' = [search EXCEPT !.searchQuery = "", !.filteredProducts = <<>>]
  /\ QueryBecomes("")
  /\ UNCHANGED <<searchPc, inventory, sortVars, seedVars, homeVars, cartVars, appVars,
                 mappingVars, sessionVars, observerVars, backendVars, users, platformVars, proc,
                 now, writeCalls>>

\* handleAddToCart of SearchScreen, from the card of a found product
SearchAddToCart ==
  /\ EffectsFlushed
  /\ ResultsRendered
  /\ \E product \in Range(search.filteredProducts) : AddToCartUnchecked(product)
  /\ UNCHANGED <<searchVars, homeVars, inventory, sortVars, seedVars, appVars, mappingVars,
                 sessionVars, observerVars, backendVars, users, platformVars, proc, now, writeCalls>>

\* the two product-list screens over one collection, seeded or populated before
InitProductScreens ==
  /\ AppInit
  /\ AppContentInit
  /\ rawError = NoError /\ thrown = NoError /\ calls = 0
  /\ SortIdle
  /\ ScreensIdle
  /\ inventory \in {Populated, [Populated EXCEPT ![101] = NoDoc, ![102] = NoDoc]}

NextSearch ==
  \/ SearchMount
  \/ SearchLoadResume
  \/ FilterProductsEffect
  \/ handleTagPress
  \/ handleSearchChange
  \/ handleRemoveTags
  \/ SearchAddToCart

SpecSearch == InitProductScreens /\ [][NextSearch]_vars


\* ---------------------------------------------------------------- claims
\* a step in which the backend invokes the registered auth-state callback
CallbackInvoked ==
  /\ listeners > 0
  /\ authQ # <<>>
  /\ authQ' = Tail(authQ)
  /\ lastArg' = Head(authQ)

\* the operation of process p has settled
Settled(p, opName) == proc[p].op = opName /\ proc[p].pc = "idle"

\* a step of a Credential Operation: a call, or a resumption from an await
OperationStep == proc' # proc

\* C1: the Session starts with initializing = true and no identity; initializing is
\* true exactly as long as the callback has never been invoked, and once false it is
\* never true again.
C1_InitializingClearedOnce ==
  /\ (initializing = TRUE /\ loading = TRUE /\ user = NoUser)
  /\ []((initializing = TRUE) <=> (lastArg = NoCall))
  /\ [][~initializing => ~initializing']_vars

C1_Witness ==
  /\ ~initializing
  /\ Settled(Main, "signOut") /\ proc[Main].result.status = "ok"
  /\ now = MaxOps
  /\ lastArg = NoUser

\* C2: every invocation of the auth-state callback with argument u leaves the Session
\* with identity = u, loading = false and initializing = false, whatever it was before.
C2_CallbackSetsSession ==
  [][CallbackInvoked => (user' = Head(authQ) /\ ~loading' /\ ~initializing')]_vars

C2_Witness ==
  /\ lastArg \in Uids /\ user = lastArg /\ ~loading /\ ~initializing
  /\ currentUser = NoUser

\* C3: in every reachable state isAuthenticated is (identity # none), and isEmailVerified
\* is the identity's emailVerified when there is an identity and false when there is none.
C3_DerivedFields ==
  /\ isAuthenticated = (user # NoUser)
  /\ isEmailVerified = (IF user # NoUser THEN accounts[user].emailVerified ELSE FALSE)

C3_Witness ==
  /\ user = 2 /\ lastArg = 2 /\ accounts[1].exists
  /\ isAuthenticated /\ ~isEmailVerified

\* C4: the Session has one writer: its fields change only in a step in which the
\* callback is invoked, and never in a step of a Credential Operation.
C4_SingleWriter ==
  [][(OperationStep \/ ~CallbackInvoked) => UNCHANGED sessionVars]_vars

C4_Witness ==
  /\ Settled(Main, "signOut") /\ proc[Main].result.status = "ok"
  /\ currentUser = NoUser /\ user # NoUser
  /\ authQ # <<>>

\* C5: at most one callback is registered, it is registered exactly while the scope is
\* mounted, and after teardown no notification is pending, delivered or changes the Session.
C5_NoLeakedCallback ==
  /\ [](listeners = (IF scope = "mounted" THEN 1 ELSE 0))
  /\ [](scope = "torn" => authQ = <<>>)
  /\ [][scope = "torn" => (~CallbackInvoked /\ UNCHANGED <<sessionVars, lastArg>>)]_vars

C5_Witness ==
  /\ scope = "torn" /\ listeners = 0
  /\ Settled(Main, "signIn") /\ proc[Main].result.status = "ok"
  /\ currentUser = proc[Main].uid /\ user # currentUser /\ lastArg # currentUser


\* C6 as stated: federated sign-ins for one uid, run one after another, make at most
\* one Profile-write call for that uid.
C6_AtMostOneWriteCall == \A u \in Uids : writeCalls[u] <= 1

\* C6 amended: a federated sign-in makes a Profile-write call only while no Profile
\* document exists for the uid, a document that exists is not written again (so at most
\* one write per uid succeeds), and every federated sign-in that returns the Identity
\* leaves the Profile document of its uid in the store.
C6_IdempotentProfileCreation ==
  /\ [][\A u \in Uids : writeCalls'[u] # writeCalls[u] => ~users[u].exists]_vars
  /\ [][\A u \in Uids : users[u].exists => users'[u] = users[u]]_vars
  /\ [](\A p \in Procs : (Settled(p, "google") /\ proc[p].result.status = "ok")
                           => (proc[p].result.value = proc[p].uid /\ users[proc[p].uid].exists))

C6_Witness ==
  /\ Settled(Main, "google") /\ proc[Main].result.status = "ok"
  /\ now = 2
  /\ proc[Main].nRead = 1 /\ proc[Main].nWrite = 0
  /\ writeCalls[proc[Main].uid] = 1
  /\ users[proc[Main].uid].exists

\* C7 as stated: sign-up and federated sign-in read the Profile document before
\* they write it.
C7_ReadBeforeEveryWrite ==
  \A p \in Procs : (proc[p].op \in {"signUp", "google"} /\ proc[p].nWrite > 0) => proc[p].nRead > 0

\* C7 amended: federated sign-in reads the Profile document first and writes only if
\* none exists; sign-up writes the Profile of the account it has just created without
\* reading; over operations run one after another a Profile document that exists is
\* never overwritten.
C7_ExistenceGatedWrite ==
  /\ [](\A p \in Procs : (proc[p].op = "google" /\ proc[p].nWrite > 0) => proc[p].nRead > 0)
  /\ [](\A p \in Procs : proc[p].op = "signUp" => proc[p].nRead = 0)
  /\ [][\A p \in Procs : (proc[p].op = "google" /\ proc'[p].nWrite > proc[p].nWrite)
                           => ~users[proc[p].uid].exists]_vars
  /\ [][\A u \in Uids : users[u].exists => users'[u] = users[u]]_vars

C7_Witness ==
  /\ Settled(Main, "google") /\ proc[Main].result.status = "ok"
  /\ proc[Main].nRead = 1 /\ proc[Main].nWrite = 0
  /\ users[proc[Main].uid].exists
  /\ users[proc[Main].uid].username = "ann"
  /\ ~users[proc[Main].uid].emailVerified

\* C8: a sign-out whose backend sign-out succeeded and whose provider sign-out threw
\* settles successfully, and the Session then comes to identity = none (as long as the
\* observer's scope is not torn down).
C8_SignOutResilience ==
  /\ [](\A p \in Procs : (Settled(p, "signOut") /\ proc[p].providerThrew)
                           => (proc[p].result = Ok(NoUser) /\ currentUser = NoUser))
  /\ ((Settled(Main, "signOut") /\ proc[Main].providerThrew /\ scope = "mounted")
        ~> (user = NoUser \/ scope = "torn"))

C8_Witness ==
  /\ Settled(Main, "signOut") /\ proc[Main].providerThrew
  /\ proc[Main].result.status = "ok"
  /\ scope = "mounted" /\ accounts[1].exists
  /\ user = NoUser /\ lastArg = NoUser /\ authQ = <<>>

\* C9 as stated: a sign-up or federated sign-in whose Profile read or write failed
\* still returns the Identity the backend created or signed in.
C9_StoreFailureStillSucceeds ==
  \A p \in Procs :
    (proc[p].op \in {"signUp", "google"} /\ proc[p].pc = "idle" /\ proc[p].storeFailed)
      => proc[p].result = Ok(proc[p].uid)

\* C9 amended: a failure of the Profile read or write fails the operation: the caller
\* receives an error carrying the store's message (with the store's code from sign-up,
\* with no code from federated sign-in) although the backend has created or signed in
\* the Identity, which stays the backend's current user; an operation that returns
\* the Identity had no store call fail.
C9_StoreFailureFailsOperation ==
  \A p \in Procs :
    (proc[p].op \in {"signUp", "google"} /\ proc[p].pc = "idle") =>
      /\ proc[p].storeFailed =>
           /\ proc[p].result.status = "error"
           /\ proc[p].result.message = ErrStore.message
           /\ proc[p].result.code = (IF proc[p].op = "signUp" THEN ErrStore.code ELSE NoCode)
           /\ proc[p].uid # NoUser /\ accounts[proc[p].uid].exists
           /\ currentUser = proc[p].uid
      /\ proc[p].result.status = "ok" =>
           (~proc[p].storeFailed /\ proc[p].result.value = proc[p].uid)

C9_Witness ==
  /\ Settled(Main, "signUp") /\ proc[Main].storeFailed
  /\ proc[Main].result.status = "error"
  /\ currentUser = proc[Main].uid
  /\ ~users[proc[Main].uid].exists

\* C10: resendEmailVerification called while the backend has no current user settles
\* at once with the error 'No user is currently signed in' (the spec's NoActiveSession:
\* an Error without code), sends no verification email and leaves the Session as it is.
C10_ResendWithoutSession ==
  [][\A p \in Procs :
       (currentUser = NoUser /\ proc'[p] # proc[p] /\ proc'[p].op = "resend" /\ now' = now + 1)
         => /\ proc'[p].pc = "idle"
            /\ proc'[p].result = Failed(Err(NoCode, "No user is currently signed in"))
            /\ proc'[p].nMail = 0
            /\ UNCHANGED sessionVars]_vars

C10_Witness ==
  /\ Settled(Main, "resend")
  /\ proc[Main].result.status = "error"
  /\ proc[Main].result.message = "No user is currently signed in"
  /\ proc[Main].nMail = 0
  /\ currentUser = NoUser /\ user = NoUser /\ ~initializing

\* C11: a password sign-in that the backend rejects for a wrong password settles with
\* the error of code auth/wrong-password (the spec's InvalidCredentials) and the
\* non-empty message 'Incorrect password. Please try again.'; the step leaves the
\* Session, the backend's current user, the pending notifications and the Profile
\* store as they were, and the operation has read and written no Profile.
C11_WrongPasswordSignIn ==
  [][\A p \in Procs :
       (/\ proc[p].pc = "si_call" /\ proc'[p].pc = "idle"
        /\ SignInRejection(proc[p].email, proc[p].password) = {ErrWrongPassword}
        /\ proc'[p].result.code # ErrNetwork.code)
         => /\ proc'[p].result =
                 Failed(Err("auth/wrong-password", "Incorrect password. Please try again."))
            /\ proc'[p].result.message # ""
            /\ proc'[p].nRead = 0 /\ proc'[p].nWrite = 0
            /\ UNCHANGED <<sessionVars, currentUser, authQ, users>>]_vars

C11_Witness ==
  /\ Settled(Main, "signIn")
  /\ proc[Main].password = "wrong-pass"
  /\ proc[Main].result.status = "error"
  /\ proc[Main].result.code = "auth/wrong-password"
  /\ currentUser = NoUser /\ user = NoUser /\ ~initializing /\ authQ = <<>>

\* C12 as stated: for every known code the mapped error has the message of its code,
\* non-empty and the same on every call, and carries nothing of the raw error: neither
\* its message nor its code.
C12_CarriesNothingRaw ==
  (calls > 0 /\ rawError.code \in KnownCodes)
    => /\ thrown.message = KnownMessage(rawError.code)
       /\ Truthy(thrown.message)
       /\ thrown.message # rawError.message
       /\ thrown.code # rawError.code

\* C12 amended: for every known code the mapped error has the message fixed for that
\* code, non-empty and never the raw message, the same on every call; it consists of
\* that message and of the raw error's code, which is kept unchanged.
C12_ErrorMappingTotal ==
  /\ []((calls > 0 /\ rawError.code \in KnownCodes)
          => /\ thrown.message = KnownMessage(rawError.code)
             /\ Truthy(thrown.message)
             /\ thrown.message # rawError.message
             /\ thrown.code = rawError.code
             /\ DOMAIN thrown = {"code", "message"})
  /\ [][calls > 0 => thrown' = thrown]_vars

C12_Witness ==
  /\ calls = MaxCalls
  /\ rawError = Err("auth/invalid-credential", "Firebase: Error.")
  /\ thrown = Err("auth/invalid-credential",
                  "Invalid credentials. Please check your email and password.")

\* C13 as stated: every failing Credential Operation, federated sign-in included,
\* surfaces the taxonomy's rewriting of the error it caught: for a caught error with a
\* known code, the message fixed for that code.
C13_OnlyRewrittenErrors ==
  \A p \in Procs :
    (proc[p].result.status = "error" /\ proc[p].caught.code \in KnownCodes)
      => proc[p].result.message = KnownMessage(proc[p].caught.code)

\* C13 amended: an operation other than federated sign-in surfaces the caught error's
\* code with the message fixed for that code, or with the caught message when the code
\* is not a known one. A failing federated sign-in surfaces an error without code:
\* with a fixed message of its own for user-cancelled, already-in-progress, Play
\* Services unavailable and native module unavailable, the DEVELOPER_ERROR text around
\* the caught message for a misconfiguration, 'popup was blocked' for a closed popup,
\* and the caught message itself for every other failure (network, store, id token).
C13_SurfacedErrors ==
  \A p \in Procs :
    proc[p].result.status = "error" =>
      LET e == proc[p].caught
          r == proc[p].result
      IN /\ proc[p].op # "google" =>
              /\ r.code = e.code
              /\ r.message = (IF e.code \in KnownCodes THEN KnownMessage(e.code) ELSE e.message)
         /\ proc[p].op = "google" =>
              /\ r.code = NoCode
              /\ r.message =
                   CASE e = ErrCancelled -> "Google sign-in was cancelled"
                     [] e = ErrInProgress -> "Google sign-in is already in progress"
                     [] e = ErrPlayServices -> "Google Play Services is not available"
                     [] e = ErrDeveloper -> DeveloperMessage("DEVELOPER_ERROR")
                     [] e = ErrPopupClosed ->
                          "Google sign-in popup was blocked. Please allow popups and try again."
                     [] OTHER -> e.message
              /\ e = ErrUnavailable =>
                   r.message \notin {"Google sign-in was cancelled",
                                     "Google sign-in is already in progress",
                                     DeveloperMessage("DEVELOPER_ERROR")}

C13_Witness ==
  /\ Settled(Main, "google")
  /\ proc[Main].caught = ErrNetwork
  /\ proc[Main].result = Failed(Err(NoCode, "Firebase: Error (auth/network-request-failed)."))
  /\ platformOS = "android"

\* C14: for an error whose code is not a known one (or that has no code), the mapped
\* error keeps that code (the spec's Unknown) and its message is exactly the message of
\* the error; the generic default message is used only when the error has no message
\* or an empty one.
C14_UnknownCodeKeepsMessage ==
  (calls > 0 /\ rawError.code \notin KnownCodes)
    => /\ thrown.code = rawError.code
       /\ rawError.message \notin {Null, ""} => thrown.message = rawError.message
       /\ rawError.message \in {Null, ""} => thrown.message = DefaultMessage
       /\ thrown.message = "An error occurred during authentication"
            => rawError.message \in {Null, ""}

C14_Witness ==
  /\ calls = 1
  /\ rawError = Err("permission-denied", "Missing or insufficient permissions.")
  /\ thrown = rawError

\* a step in which process p calls federated sign-in
GoogleCalled(p) == proc'[p] # proc[p] /\ proc'[p].op = "google" /\ now' = now + 1

\* C15 as stated: the variant federated sign-in dispatches on is fixed from module load
\* on: no step, configureGoogleSignIn included, changes it.
C15_StrategyNeverChanges == [][Strategy' = Strategy]_vars

\* C15 amended: module load resolves the variant; configureGoogleSignIn, run once at
\* application start before any operation can be called, may change NativeModule to
\* Unavailable and nothing else; once it has run no step changes the variant, and every
\* federated sign-in call is made after it and takes the branch of the variant.
C15_StrategyFixedOnceConfigured ==
  /\ [][configured => Strategy' = Strategy]_vars
  /\ [][Strategy' # Strategy
          => (~configured /\ configured' /\ Strategy = "NativeModule"
                /\ Strategy' = "Unavailable")]_vars
  /\ [][\A p \in Procs :
          GoogleCalled(p)
            => /\ configured /\ Strategy' = Strategy
               /\ proc'[p].pc = (CASE Strategy = "Web" -> "gw_popup"
                                   [] Strategy = "NativeModule" -> "gn_play"
                                   [] OTHER -> "idle")]_vars

C15_Witness ==
  /\ configured /\ GoogleSignin /\ Strategy = "Unavailable"
  /\ Settled(Main, "google")
  /\ proc[Main].caught = ErrUnavailable
  /\ now = MaxOps

C17_SuccessfulSignUp ==
  /\ [](\A p \in Procs :
          (Settled(p, "signUp") /\ proc[p].result.status = "ok") =>
            LET u == proc[p].uid
                given == Truthy(proc[p].username) \/ Truthy(proc[p].fullName)
            IN /\ u \in Uids /\ proc[p].result.value = u
               /\ accounts[u].exists /\ accounts[u].email = proc[p].email
               /\ proc[p].nMail = 1
               /\ proc[p].nRead = 0
               /\ proc[p].nWrite = (IF given THEN 1 ELSE 0)
               /\ given =>
                    /\ users[u].exists
                    /\ users[u].email = accounts[u].email
                    /\ users[u].fullName = (IF proc[p].fullName = Null THEN "" ELSE proc[p].fullName)
                    /\ users[u].username = (IF proc[p].username = Null THEN "" ELSE proc[p].username)
                    /\ users[u].emailVerified = FALSE
               /\ ~given => ~users[u].exists)
  /\ [][\A p \in Procs :
          (proc[p].pc = "su_create" /\ proc'[p].uid # NoUser)
            => /\ ~accounts[proc'[p].uid].exists /\ accounts'[proc'[p].uid].exists
               /\ ~users[proc'[p].uid].exists]_vars

C17_Witness ==
  /\ Settled(Main, "signUp") /\ proc[Main].result.status = "ok"
  /\ proc[Main].email = "a@b.com" /\ proc[Main].fullName = "Ann" /\ proc[Main].username = Null
  /\ proc[Main].nMail = 1 /\ proc[Main].nWrite = 1
  /\ users[proc[Main].uid].email = "a@b.com"
  /\ users[proc[Main].uid].fullName = "Ann"
  /\ users[proc[Main].uid].username = ""
  /\ ~users[proc[Main].uid].emailVerified

\* C18: every Profile that a federated sign-in writes, on the web and on the native
\* branch alike, has emailVerified = true whatever the Identity's emailVerified is,
\* username = '', and the Identity's email and displayName as email and fullName
\* ('' for one that is missing); it is written only where no Profile exists.
C18_FederatedProfileContent ==
  [][\A p \in Procs :
       (proc[p].op = "google" /\ proc'[p].nWrite > proc[p].nWrite
          /\ proc'[p].result.status = "ok")
         => LET u == proc[p].uid
            IN /\ proc[p].pc = (IF platformOS = "web" THEN "gw_write" ELSE "gn_write")
               /\ ~users[u].exists /\ users'[u].exists
               /\ users'[u].emailVerified = TRUE
               /\ users'[u].username = ""
               /\ users'[u].email = (IF accounts[u].email = Null THEN "" ELSE accounts[u].email)
               /\ users'[u].fullName =
                    (IF accounts[u].displayName = Null THEN "" ELSE accounts[u].displayName)]_vars

C18_Witness ==
  /\ Settled(Main, "google") /\ proc[Main].result.status = "ok"
  /\ platformOS = "android"
  /\ proc[Main].nWrite = 1
  /\ ~accounts[proc[Main].uid].emailVerified
  /\ accounts[proc[Main].uid].email = Null
  /\ users[proc[Main].uid].emailVerified
  /\ users[proc[Main].uid].email = "" /\ users[proc[Main].uid].fullName = ""

\* C19: a Profile document exists only for a uid that has an account at the backend,
\* and a Profile comes into existence only in a step of a sign-up or federated sign-in
\* that the backend has signed in as that uid before; an account may exist without a
\* Profile.
C19_ProfileImpliesIdentity ==
  /\ [](\A u \in Uids : users[u].exists => accounts[u].exists)
  /\ [][\A u \in Uids :
          (~users[u].exists /\ users'[u].exists)
            => /\ accounts[u].exists
               /\ \E p \in Procs :
                    /\ proc[p].op \in {"signUp", "google"}
                    /\ proc[p].uid = u
                    /\ proc'[p].nWrite = proc[p].nWrite + 1]_vars

C19_Witness ==
  /\ accounts[1].exists /\ ~users[1].exists
  /\ accounts[2].exists /\ users[2].exists
  /\ Settled(Main, "signUp") /\ proc[Main].uid = 2
  /\ currentUser = 2 /\ user # 2

\* C20: the read of the Profile and its write are two steps: a federated sign-in that
\* has read 'no Profile' writes when it resumes, whatever another sign-in has written
\* in between, so two concurrent sign-ins for one uid can both write; in every
\* interleaving a Profile once written stays in the store, a second write replaces it
\* by a Profile that differs at most in createdAt, and every sign-in that returns the
\* Identity leaves the one Profile document of its uid.
C20_RaceLeavesOneProfile ==
  /\ [][\A p \in Procs :
          (proc[p].pc \in {"gw_write", "gn_write"} /\ proc'[p] # proc[p])
            => /\ proc'[p].nWrite = proc[p].nWrite + 1
               /\ writeCalls'[proc[p].uid] = writeCalls[proc[p].uid] + 1]_vars
  /\ [][\A u \in Uids :
          users[u].exists
            => /\ users'[u].exists
               /\ [users'[u] EXCEPT !.createdAt = 0] = [users[u] EXCEPT !.createdAt = 0]]_vars
  /\ [](\A p \in Procs :
          (Settled(p, "google") /\ proc[p].result.status = "ok")
            => /\ proc[p].nRead = 1
               /\ users[proc[p].uid].exists
               /\ users[proc[p].uid].emailVerified /\ users[proc[p].uid].username = "")

C20_Witness ==
  /\ proc["p1"].uid = proc["p2"].uid
  /\ \A p \in Procs :
       /\ Settled(p, "google") /\ proc[p].result.status = "ok"
       /\ proc[p].nRead = 1 /\ proc[p].nWrite = 1
  /\ writeCalls[proc["p1"].uid] = 2
  /\ users[proc["p1"].uid].exists

\* C21: sign-up takes its steps in one order: create the account, set the display name
\* (exactly when a fullName was given), send the verification email, write the Profile
\* (exactly when a username or fullName was given); the Profile is written only after
\* the verification email was dispatched; a step that fails after the account was
\* created makes the operation fail with the mapped error of what it caught, and the
\* account and the backend session of the new uid remain.
C21_SignUpStepOrder ==
  /\ [][\A p \in Procs :
          (proc[p].op = "signUp" /\ proc[p].pc # "idle" /\ proc'[p] # proc[p]) =>
            LET from == proc[p].pc
                to == proc'[p].pc
                failed == proc'[p].result.status = "error"
            IN /\ to = "idle" => proc'[p].result.status \in {"ok", "error"}
               /\ from = "su_create" =>
                    to = (IF failed THEN "idle"
                          ELSE IF Truthy(proc[p].fullName) THEN "su_update" ELSE "su_verify")
               /\ from = "su_update" => to = (IF failed THEN "idle" ELSE "su_verify")
               /\ from = "su_verify" =>
                    /\ to = (IF failed THEN "idle"
                             ELSE IF Truthy(proc[p].username) \/ Truthy(proc[p].fullName)
                               THEN "su_write" ELSE "idle")
                    /\ ~failed => proc'[p].nMail = 1
               /\ from = "su_write" => to = "idle"
               /\ users' # users =>
                    /\ from = "su_write" /\ proc[p].nMail = 1
                    /\ accounts[proc[p].uid].displayName = proc[p].fullName]_vars
  /\ [](\A p \in Procs :
          (Settled(p, "signUp") /\ proc[p].result.status = "error" /\ proc[p].uid # NoUser)
            => /\ accounts[proc[p].uid].exists
               /\ accounts[proc[p].uid].email = proc[p].email
               /\ currentUser = proc[p].uid
               /\ proc[p].result.code = proc[p].caught.code
               /\ proc[p].caught.code \in KnownCodes
                    => proc[p].result.message = KnownMessage(proc[p].caught.code))

C21_Witness ==
  /\ Settled(Main, "signUp") /\ proc[Main].result.status = "error"
  /\ proc[Main].fullName = "Ann"
  /\ proc[Main].uid \in Uids /\ accounts[proc[Main].uid].displayName = "Ann"
  /\ proc[Main].nMail = 0 /\ proc[Main].nWrite = 0
  /\ proc[Main].result.message = "Network error. Please check your internet connection."
  /\ currentUser = proc[Main].uid /\ user = proc[Main].uid

\* C22: sign-out goes on to the provider's sign-out only from a backend sign-out that
\* succeeded, and only off the web with the native module loaded and available; a
\* backend sign-out that fails settles the operation at once with the mapped error,
\* the backend session stays, and the provider's sign-out is not attempted.
C22_SignOutRevocationOrder ==
  /\ [][\A p \in Procs :
          (proc[p].op = "signOut" /\ proc[p].pc = "so_backend" /\ proc'[p] # proc[p]) =>
            IF currentUser' = NoUser /\ proc'[p].result.status # "error"
              THEN /\ proc'[p].pc = "so_google"
                        <=> (platformOS # "web" /\ isGoogleSignInAvailable /\ GoogleSignin)
                   /\ proc'[p].pc # "so_google" => proc'[p].result = Ok(NoUser)
              ELSE /\ proc'[p].pc = "idle"
                   /\ proc'[p].result = Failed(Err("auth/network-request-failed",
                        "Network error. Please check your internet connection."))
                   /\ currentUser' = currentUser /\ authQ' = authQ]_vars
  /\ [][\A p \in Procs :
          (proc'[p].pc = "so_google" /\ proc[p].pc # "so_google")
            => (proc[p].op = "signOut" /\ proc[p].pc = "so_backend")]_vars

C22_Witness ==
  /\ Settled(Main, "signOut") /\ proc[Main].result.status = "error"
  /\ platformOS = "android" /\ GoogleSignin /\ isGoogleSignInAvailable
  /\ ~proc[Main].providerThrew
  /\ currentUser = 1 /\ user = 1

\* C23: after a successful sign-up from the sign-up screen the user is redirected to
\* the email sign-in screen: the handler's continuation sets authView to 'email-signin',
\* and once the sign-up has completed and the observer has delivered its notifications
\* the app renders the sign-in screen, not the main app.
SignUpSettled ==
  /\ proc[Main].op = "signUp" /\ proc[Main].pc = "idle" /\ proc[Main].result.status = "ok"
  /\ handler = "none"
  /\ authQ = <<>>

C23_RedirectedToSignIn ==
  [][/\ (handler = "signUp" /\ handler' = "none" /\ proc[Main].result.status = "ok")
          => authView' = "email-signin"
     /\ (~SignUpSettled /\ SignUpSettled' /\ authView' = "email-signin")
          => Rendered' = "email-signin"]_vars

\* C24: for every input product list, sortProductsByPriority returns the priority
\* products first, in the order of PRIORITY_PRODUCTS, followed by the remaining products
\* in their original relative order, and the result is a permutation of the input: no
\* product is dropped or duplicated, also when several products share a priority imageKey.
KeyIndex(product) == CHOOSE k \in 1..Len(PRIORITY_PRODUCTS) : PRIORITY_PRODUCTS[k] = product.imageKey
PositionIn(s, product) == CHOOSE i \in 1..Len(s) : s[i] = product

PriorityFirstInOrder(s) ==
  \A i, j \in 1..Len(s) :
    i < j => /\ (IsPriority(s[j]) => IsPriority(s[i]))
             /\ (IsPriority(s[i]) /\ IsPriority(s[j]) => KeyIndex(s[i]) <= KeyIndex(s[j]))

OthersKeepOrder(input, s) ==
  \A i, j \in 1..Len(s) :
    (i < j /\ ~IsPriority(s[i]) /\ ~IsPriority(s[j]) /\ s[i] \in Range(input) /\ s[j] \in Range(input))
      => PositionIn(input, s[i]) < PositionIn(input, s[j])

IsPermutation(input, s) == Len(s) = Len(input) /\ Range(s) = Range(input)

C24_SortIsPermutation ==
  sorted => /\ PriorityFirstInOrder(sortOutput)
            /\ OthersKeepOrder(unsorted, sortOutput)
            /\ IsPermutation(unsorted, sortOutput)

\* C25: immediately after a successful product load the home screen shows only priority
\* products: every product in displayedProducts has an imageKey in PRIORITY_PRODUCTS,
\* whatever list was fetched (also with fewer than five priority products in it).
LoadSucceeded == loadPc # "idle" /\ loadPc' = "idle" /\ home'.error = Null

C25_ShowsOnlyPriorityProducts ==
  [][LoadSucceeded => \A product \in Range(home'.displayedProducts) : IsPriority(product)]_vars

\* C26: in every reachable state of the home screen displayedProducts is a prefix of
\* allProducts, never longer than it, under any interleaving of load-more (guarded by
\* loadingMore, completed by the delayed timer) with a Refresh that replaces allProducts.
IsPrefix(s, t) == Len(s) <= Len(t) /\ s = SubSeq(t, 1, Len(s))

C26_DisplayedIsPrefix == IsPrefix(home.displayedProducts, home.allProducts)

\* C27: inventory seeding is existence-gated and idempotent: seedInventory writes a
\* product document only when none with that id exists and never overwrites one; a
\* failure on one product does not stop the others; a second run after a fully
\* successful run adds nothing and reports every product as skipped; in every run
\* added + skipped + failed is the number of seed products, with success true exactly
\* when failed is 0.
SeedProductCount == Len(productsData)

ReportAddsUp(report) ==
  /\ report.added + report.skipped + report.failed = SeedProductCount
  /\ report.total = SeedProductCount
  /\ report.success = (report.failed = 0)

NeverOverwrites ==
  [][\A id \in ProductIds : inventory[id].exists => inventory'[id] = inventory[id]]_vars

\* the statement as claimed: the second run reports every product as skipped
C27_SecondRunAllSkipped ==
  (Len(runs) >= 2 /\ runs[1].success)
    => (runs[2].added = 0 /\ runs[2].skipped = SeedProductCount)

\* the statement that holds: a product whose getDoc fails in the second run is reported
\* as failed, every other one as skipped
SeedRunsAgree ==
  /\ \A k \in 1..Len(runs) : ReportAddsUp(runs[k])
  /\ seed.pc = "done" =>
       \A i \in 1..SeedProductCount :
         seed.results[i] # "failed" => inventory[productsData[i].id].exists
  /\ \A k \in 1..(Len(runs) - 1) :
       runs[k].success => /\ runs[k + 1].added = 0
                          /\ runs[k + 1].skipped = SeedProductCount - runs[k + 1].failed

C27_SeedingIdempotent == NeverOverwrites /\ []SeedRunsAgree

C27_Witness ==
  /\ Len(runs) = 2 /\ runs[1].success /\ runs[1].added > 0
  /\ runs[2].failed = 1 /\ runs[2].skipped = SeedProductCount - 1

\* C28: when the home screen mounts against an empty inventory collection, then under
\* every interleaving of initializeInventory (check, then seed) and the initial
\* loadProducts, once both have finished allProducts contains the seeded products.
C28_LoadSeesSeededProducts ==
  (initPc = "done" /\ loadPc = "idle" /\ home.error = Null)
    => \A i \in 1..Len(seed.results) :
         seed.results[i] = "success" => productsData[i] \in Range(home.allProducts)

\* C29: a product whose stock is 0 is never added to the cart: on every product-list
\* screen (Home and Search) the add-to-cart handler calls addToCart only for a product
\* with stock different from 0, and otherwise reports it as out of stock.
C29_NeverAddsSoldOut ==
  /\ cart # NoProduct => cart.stock # 0
  /\ toast = "added to your cart" => cart.stock # 0

\* C30: after a search tag is pressed and the screen's effects have settled,
\* filteredProducts equals allProducts filtered by that tag's own filter ('Sweet Fruits'
\* shows all products, 'Exotic Fruits' shows Durian, Fig and Pomegranate), with
\* searchQuery set to the tag's label.
TagPressed == search.searchQuery \in Range(SEARCH_TAGS)

C30_TagShowsItsFilter ==
  (EffectsFlushed /\ TagPressed)
    => search.filteredProducts =
         SelectSeq(search.allProducts, LAMBDA p : TagFilter(search.searchQuery, p))

====
